---- MODULE Spec2Model ----
(***************************************************************************)
(* Model of the 3D bin packer of space-optimiser (packer.go): Pack,        *)
(* findBestBox, packIntoBox and the Extreme Points helpers, stepped at the *)
(* granularity of the loops of the source.                                 *)
(***************************************************************************)
EXTENDS Integers, Sequences, FiniteSets, TLC

\* ------------------------------------------------------------------------
\* Bounds of the checked inputs
\* ------------------------------------------------------------------------
MaxDim == 2
MaxQty == 2
MaxItems == 2
MaxBoxes == 2
MaxInput == 3

\* math.MaxInt, the initial bestScore of findBestPlacement: above every score.
\* The model keeps the largest integer TLC represents (2^31 - 1); the scores
\* of the checked inputs stay below 1000 * MaxDim * 2.
MaxInt == 2147483647

ItemIDs == <<"a", "b", "c", "d">>
BoxIDs == <<"A", "B", "C", "D">>

VARIABLES
  inputItems,      \* Pack: the caller's item list
  availableBoxes,  \* Pack: the caller's box-type list
  pc,              \* position in Pack / findBestBox / packIntoBox
  items,           \* Pack: expanded (then sorted) unit items
  boxes,           \* Pack: sorted clone of availableBoxes
  packedBoxes,     \* Pack: committed boxes
  unpackedItems,   \* Pack: units that were never placed
  remaining,       \* Pack: units still to place
  bi,              \* findBestBox: loop index i over boxes (0-based)
  bestIdx,         \* findBestBox
  bestPlacements,  \* findBestBox
  bestPacked,      \* findBestBox
  bestPackedVol,   \* findBestBox
  ii,              \* packIntoBox: loop index i over items (0-based)
  extremePoints,   \* packIntoBox
  placements,      \* packIntoBox
  packed,          \* packIntoBox
  packedVol,       \* packIntoBox
  parked,          \* the locals of the other Pack calls in progress
  env,             \* the value of RAPIDAPI_PROXY_SECRET ("" when not set)
  header,          \* the request's X-RapidAPI-Proxy-Secret header values
  expectedSecret,  \* RapidAPIMiddleware
  proxySecret,     \* RapidAPIMiddleware
  status,          \* the status of the response written (0: none yet)
  nextCalled,      \* the wrapped handler was called for the request
  served,          \* requests that have arrived
  body,            \* handlePack: the body of the request
  totalBoxVolume,  \* handlePack
  totalItemVolume, \* handlePack
  utilization,     \* handlePack: a quotient, as numerator and denominator
  visualizations   \* the ids of the visualization pages stored

packVars == <<inputItems, availableBoxes, items, boxes, packedBoxes,
              unpackedItems, remaining>>
bestVars == <<bi, bestIdx, bestPlacements, bestPacked, bestPackedVol>>
trialVars == <<ii, extremePoints, placements, packed, packedVol>>
httpVars == <<env, header, expectedSecret, proxySecret, status, nextCalled,
              served>>
respVars == <<body, totalBoxVolume, totalItemVolume, utilization,
              visualizations>>
vars == <<pc, packVars, bestVars, trialVars, parked, httpVars, respVars>>

\* ------------------------------------------------------------------------
\* Library functions used by the source
\* ------------------------------------------------------------------------
\* cmp.Compare on ints
Compare(a, b) == IF a < b THEN -1 ELSE IF a > b THEN 1 ELSE 0

\* builtin max of three ints
max(a, b, c) ==
  LET ab == IF a >= b THEN a ELSE b
  IN IF ab >= c THEN ab ELSE c

\* All index orders of S in which no later element compares below an earlier
\* one, for the comparison results c[i, j] of the elements s[i] and s[j]. Of
\* several equal elements the one of lowest index is taken first: exchanging
\* equal elements leaves the sorted slice as it is.
RECURSIVE SortedOrders(_, _, _)
SortedOrders(s, c, S) ==
  IF S = {} THEN {<<>>}
  ELSE UNION { { <<m>> \o r : r \in SortedOrders(s, c, S \ {m}) } :
               m \in { i \in S : /\ \A j \in S : ~(c[j, i] < 0)
                                 /\ \A j \in S : j < i => s[j] # s[i] } }

\* slices.SortFunc: sorts s ascending by the comparison c of its elements;
\* the sort is not stable, so any order of elements that compare equal is a
\* possible result.
slicesSortFunc(s, c) ==
  { [k \in 1..Len(s) |-> s[o[k]]] : o \in SortedOrders(s, c, 1..Len(s)) }

\* ------------------------------------------------------------------------
\* Geometry primitives
\* ------------------------------------------------------------------------
boxVolume(b) == b.W * b.H * b.D

\* Mutant of rotations: the item is never turned.
rotationsNone(w, h, d) ==
  << <<w, h, d>>, <<w, h, d>>, <<w, h, d>>,
     <<w, h, d>>, <<w, h, d>>, <<w, h, d>> >>

\* Mutant of rotations: the last orientation repeats h instead of w.
rotationsTypo(w, h, d) ==
  << <<w, h, d>>, <<w, d, h>>, <<h, w, d>>,
     <<h, d, w>>, <<d, w, h>>, <<d, h, h>> >>

rotations(w, h, d) ==
  << <<w, h, d>>, <<w, d, h>>, <<h, w, d>>,
     <<h, d, w>>, <<d, w, h>>, <<d, h, w>> >>

\* Mutant of fitsInBox: an item that reaches the far wall is refused.
fitsInBoxStrict(box, x, y, z, w, h, d) ==
  x >= 0 /\ y >= 0 /\ z >= 0 /\
  x + w < box.W /\ y + h < box.H /\ z + d < box.D

\* Mutant of fitsInBox: the height axis is not checked.
fitsInBoxNoHeight(box, x, y, z, w, h, d) ==
  x >= 0 /\ y >= 0 /\ z >= 0 /\
  x + w <= box.W /\ z + d <= box.D

\* Mutant of fitsInBox: the depth axis is not checked.
fitsInBoxNoDepth(box, x, y, z, w, h, d) ==
  x >= 0 /\ y >= 0 /\ z >= 0 /\
  x + w <= box.W /\ y + h <= box.H

fitsInBox(box, x, y, z, w, h, d) ==
  x >= 0 /\ y >= 0 /\ z >= 0 /\
  x + w <= box.W /\ y + h <= box.H /\ z + d <= box.D

boxesOverlap(p, x, y, z, w, h, d) ==
  p.X < x + w /\ p.X + p.W > x /\
  p.Y < y + h /\ p.Y + p.H > y /\
  p.Z < z + d /\ p.Z + p.D > z

\* Mutant of hasOverlap: only the most recent placement is tested.
hasOverlapLastOnly(ps, x, y, z, w, h, d) ==
  Len(ps) > 0 /\ boxesOverlap(ps[Len(ps)], x, y, z, w, h, d)

hasOverlap(ps, x, y, z, w, h, d) ==
  \E k \in 1..Len(ps) : boxesOverlap(ps[k], x, y, z, w, h, d)

isInsidePlaced(ep, placed) ==
  ep.X >= placed.X /\ ep.X < placed.X + placed.W /\
  ep.Y >= placed.Y /\ ep.Y < placed.Y + placed.H /\
  ep.Z >= placed.Z /\ ep.Z < placed.Z + placed.D

isInsidePlacement(ep, ps) ==
  \E k \in 1..Len(ps) :
    ep.X >= ps[k].X /\ ep.X < ps[k].X + ps[k].W /\
    ep.Y >= ps[k].Y /\ ep.Y < ps[k].Y + ps[k].H /\
    ep.Z >= ps[k].Z /\ ep.Z < ps[k].Z + ps[k].D

\* ------------------------------------------------------------------------
\* Item expansion and ordering
\* ------------------------------------------------------------------------
InputItemOf(u) ==
  [ID |-> u.ID, W |-> u.W, H |-> u.H, D |-> u.D, Quantity |-> u.Quantity]

itemToPack(item) ==
  [ID |-> item.ID, W |-> item.W, H |-> item.H, D |-> item.D,
   Quantity |-> item.Quantity,
   volume |-> item.W * item.H * item.D,
   maxDim |-> max(item.W, item.H, item.D)]

RECURSIVE expandItemsFrom(_, _)
expandItemsFrom(ins, k) ==
  IF k > Len(ins) THEN <<>>
  ELSE [q \in 1..ins[k].Quantity |-> itemToPack(ins[k])]
       \o expandItemsFrom(ins, k + 1)

\* Mutant of expandItems: the quantity loop runs once too often.
RECURSIVE expandItemsInclusiveFrom(_, _)
expandItemsInclusiveFrom(ins, k) ==
  IF k > Len(ins) THEN <<>>
  ELSE [q \in 1..(ins[k].Quantity + 1) |-> itemToPack(ins[k])]
       \o expandItemsInclusiveFrom(ins, k + 1)

expandItemsInclusive(ins) == expandItemsInclusiveFrom(ins, 1)

\* Mutant of expandItems: the first input item is not expanded.
expandItemsSkipFirst(ins) == expandItemsFrom(ins, 2)

expandItems(ins) == expandItemsFrom(ins, 1)

\* Mutant of cmpItems: units of equal volume are not told apart.
cmpItemsVolumeOnly(a, b) == Compare(b.volume, a.volume)

cmpItems(a, b) ==
  IF Compare(b.volume, a.volume) # 0
  THEN Compare(b.volume, a.volume)
  ELSE Compare(b.maxDim, a.maxDim)

sortItemsByVolume(s) ==
  slicesSortFunc(s, [i \in 1..Len(s), j \in 1..Len(s) |-> cmpItems(s[i], s[j])])

cmpBoxes(a, b) == Compare(boxVolume(a), boxVolume(b))

sortBoxes(s) ==
  slicesSortFunc(s, [i \in 1..Len(s), j \in 1..Len(s) |-> cmpBoxes(s[i], s[j])])

RECURSIVE filterUnpackedFrom(_, _, _)
filterUnpackedFrom(its, flags, k) ==
  IF k > Len(flags) THEN <<>>
  ELSE (IF ~flags[k] THEN <<its[k]>> ELSE <<>>)
       \o filterUnpackedFrom(its, flags, k + 1)

\* Mutant of filterUnpacked: the test of the flag is inverted.
filterUnpackedInverted(its, flags) ==
  filterUnpackedFrom(its, [k \in 1..Len(flags) |-> ~flags[k]], 1)

\* Mutant of filterUnpacked: the scan starts at the second flag.
filterUnpackedSkipFirst(its, flags) == filterUnpackedFrom(its, flags, 2)

filterUnpacked(its, flags) == filterUnpackedFrom(its, flags, 1)

\* ------------------------------------------------------------------------
\* Placement frontier
\* ------------------------------------------------------------------------
cmpPoints(a, b) ==
  IF Compare(a.Y, b.Y) # 0 THEN Compare(a.Y, b.Y)
  ELSE IF Compare(a.Z, b.Z) # 0 THEN Compare(a.Z, b.Z)
  ELSE Compare(a.X, b.X)

sortByPosition(points) ==
  slicesSortFunc(points, [i \in 1..Len(points), j \in 1..Len(points) |->
                            cmpPoints(points[i], points[j])])

RECURSIVE deduplicateFrom(_, _, _)
deduplicateFrom(points, k, result) ==
  IF k > Len(points) THEN result
  ELSE LET p == points[k]
           seen == \E r \in 1..Len(result) :
                     result[r].X = p.X /\ result[r].Y = p.Y /\ result[r].Z = p.Z
       IN deduplicateFrom(points, k + 1,
                          IF seen THEN result ELSE Append(result, p))

\* Mutant of deduplicatePoints: every anchor is kept.
deduplicatePointsNone(points) == points

deduplicatePoints(points) == deduplicateFrom(points, 1, <<>>)

\* Mutant of updateExtremePoints: no anchor is made behind the placed item.
updateExtremePointsNoDepth(eps, placed, box, ps) ==
  LET newPoints ==
        << [X |-> placed.X + placed.W, Y |-> placed.Y, Z |-> placed.Z,
            W |-> box.W - (placed.X + placed.W), H |-> box.H - placed.Y,
            D |-> box.D - placed.Z],
           [X |-> placed.X, Y |-> placed.Y + placed.H, Z |-> placed.Z,
            W |-> box.W - placed.X, H |-> box.H - (placed.Y + placed.H),
            D |-> box.D - placed.Z] >>
      validNew ==
        SelectSeq(newPoints,
                  LAMBDA ep :
                    /\ ~(ep.X >= box.W \/ ep.Y >= box.H \/ ep.Z >= box.D
                         \/ ep.X < 0 \/ ep.Y < 0 \/ ep.Z < 0)
                    /\ ~isInsidePlacement(ep, ps))
      kept == SelectSeq(eps, LAMBDA ep : ~isInsidePlaced(ep, placed))
  IN deduplicatePoints(validNew \o kept)

\* Mutant of updateExtremePoints: the earlier anchors are all retained.
updateExtremePointsKeepAll(eps, placed, box, ps) ==
  LET newPoints ==
        << [X |-> placed.X + placed.W, Y |-> placed.Y, Z |-> placed.Z,
            W |-> box.W - (placed.X + placed.W), H |-> box.H - placed.Y,
            D |-> box.D - placed.Z],
           [X |-> placed.X, Y |-> placed.Y + placed.H, Z |-> placed.Z,
            W |-> box.W - placed.X, H |-> box.H - (placed.Y + placed.H),
            D |-> box.D - placed.Z],
           [X |-> placed.X, Y |-> placed.Y, Z |-> placed.Z + placed.D,
            W |-> box.W - placed.X, H |-> box.H - placed.Y,
            D |-> box.D - (placed.Z + placed.D)] >>
      validNew ==
        SelectSeq(newPoints,
                  LAMBDA ep :
                    /\ ~(ep.X >= box.W \/ ep.Y >= box.H \/ ep.Z >= box.D
                         \/ ep.X < 0 \/ ep.Y < 0 \/ ep.Z < 0)
                    /\ ~isInsidePlacement(ep, ps))
  IN deduplicatePoints(validNew \o eps)

updateExtremePoints(eps, placed, box, ps) ==
  LET newPoints ==
        << [X |-> placed.X + placed.W, Y |-> placed.Y, Z |-> placed.Z,
            W |-> box.W - (placed.X + placed.W), H |-> box.H - placed.Y,
            D |-> box.D - placed.Z],
           [X |-> placed.X, Y |-> placed.Y + placed.H, Z |-> placed.Z,
            W |-> box.W - placed.X, H |-> box.H - (placed.Y + placed.H),
            D |-> box.D - placed.Z],
           [X |-> placed.X, Y |-> placed.Y, Z |-> placed.Z + placed.D,
            W |-> box.W - placed.X, H |-> box.H - placed.Y,
            D |-> box.D - (placed.Z + placed.D)] >>
      validNew ==
        SelectSeq(newPoints,
                  LAMBDA ep :
                    /\ ~(ep.X >= box.W \/ ep.Y >= box.H \/ ep.Z >= box.D
                         \/ ep.X < 0 \/ ep.Y < 0 \/ ep.Z < 0)
                    /\ ~isInsidePlacement(ep, ps))
      kept == SelectSeq(eps, LAMBDA ep : ~isInsidePlaced(ep, placed))
  IN deduplicatePoints(validNew \o kept)

\* ------------------------------------------------------------------------
\* Placement choice
\* ------------------------------------------------------------------------
\* Mutant of findBestRotationFrom: a pair that ties with the best score
\* replaces the best kept so far.
RECURSIVE findBestRotationFromLastWins(_, _, _, _, _, _, _)
findBestRotationFromLastWins(ep, pidx, item, box, ps, ridx, best) ==
  IF ridx >= 6 THEN best
  ELSE LET rot == rotations(item.W, item.H, item.D)[ridx + 1]
           w == rot[1]
           h == rot[2]
           d == rot[3]
           score == ep.Y * 1000 + ep.Z * 100 + ep.X * 10
                    + (ep.W - w) + (ep.H - h) + (ep.D - d)
           better == /\ fitsInBox(box, ep.X, ep.Y, ep.Z, w, h, d)
                     /\ ~hasOverlap(ps, ep.X, ep.Y, ep.Z, w, h, d)
                     /\ score <= best.bestScore
       IN IF better
          THEN findBestRotationFromLastWins(ep, pidx, item, box, ps, ridx + 1,
                 [bestPoint |-> pidx, bestRot |-> ridx, bestScore |-> score])
          ELSE findBestRotationFromLastWins(ep, pidx, item, box, ps, ridx + 1,
                                            best)

\* findBestPlacement, lines 212-227: the loop over the rotations of the item
\* at the anchor ep of index pidx, from rotation ridx on (both 0-based)
RECURSIVE findBestRotationFrom(_, _, _, _, _, _, _)
findBestRotationFrom(ep, pidx, item, box, ps, ridx, best) ==
  IF ridx >= 6 THEN best
  ELSE LET rot == rotations(item.W, item.H, item.D)[ridx + 1]
           w == rot[1]
           h == rot[2]
           d == rot[3]
           score == ep.Y * 1000 + ep.Z * 100 + ep.X * 10
                    + (ep.W - w) + (ep.H - h) + (ep.D - d)
           better == /\ fitsInBox(box, ep.X, ep.Y, ep.Z, w, h, d)
                     /\ ~hasOverlap(ps, ep.X, ep.Y, ep.Z, w, h, d)
                     /\ score < best.bestScore
       IN IF better
          THEN findBestRotationFrom(ep, pidx, item, box, ps, ridx + 1,
                 [bestPoint |-> pidx, bestRot |-> ridx, bestScore |-> score])
          ELSE findBestRotationFrom(ep, pidx, item, box, ps, ridx + 1, best)

\* findBestPlacement, lines 207-228: the loop over the anchors from index
\* pidx on
RECURSIVE findBestPlacementFrom(_, _, _, _, _, _)
findBestPlacementFrom(points, item, box, ps, pidx, best) ==
  IF pidx >= Len(points) THEN best
  ELSE findBestPlacementFrom(points, item, box, ps, pidx + 1,
         findBestRotationFrom(points[pidx + 1], pidx, item, box, ps, 0, best))

findBestPlacement(points, item, box, ps) ==
  findBestPlacementFrom(points, item, box, ps, 0,
    [bestPoint |-> -1, bestRot |-> -1, bestScore |-> MaxInt])

\* ------------------------------------------------------------------------
\* Single-container packer
\* ------------------------------------------------------------------------
\* packIntoBox, lines 155-162: the state of a trial before the first item
packIntoBoxInit(its, box) ==
  [extremePoints |-> << [X |-> 0, Y |-> 0, Z |-> 0,
                         W |-> box.W, H |-> box.H, D |-> box.D] >>,
   placements |-> <<>>,
   packed |-> [k \in 1..Len(its) |-> FALSE],
   packedVol |-> 0]

\* Mutant of packIntoBoxStep: the new placement is put in front of the
\* earlier ones.
packIntoBoxStepPrepend(st, i, item, box, sorted) ==
  LET best == findBestPlacement(sorted, item, box, st.placements)
      ep == sorted[best.bestPoint + 1]
      rot == rotations(item.W, item.H, item.D)[best.bestRot + 1]
      placement == [ItemID |-> item.ID,
                    X |-> ep.X, Y |-> ep.Y, Z |-> ep.Z,
                    W |-> rot[1], H |-> rot[2], D |-> rot[3]]
      ps == <<placement>> \o st.placements
  IN IF best.bestPoint = -1
     THEN [st EXCEPT !.extremePoints = sorted]
     ELSE [extremePoints |-> updateExtremePoints(sorted, placement, box, ps),
           placements |-> ps,
           packed |-> [st.packed EXCEPT ![i + 1] = TRUE],
           packedVol |-> st.packedVol + item.volume]

\* Mutant of packIntoBoxStep: the packed volume is set to the volume of the
\* unit instead of growing by it.
packIntoBoxStepNoSum(st, i, item, box, sorted) ==
  LET best == findBestPlacement(sorted, item, box, st.placements)
      ep == sorted[best.bestPoint + 1]
      rot == rotations(item.W, item.H, item.D)[best.bestRot + 1]
      placement == [ItemID |-> item.ID,
                    X |-> ep.X, Y |-> ep.Y, Z |-> ep.Z,
                    W |-> rot[1], H |-> rot[2], D |-> rot[3]]
      ps == Append(st.placements, placement)
  IN IF best.bestPoint = -1
     THEN [st EXCEPT !.extremePoints = sorted]
     ELSE [extremePoints |-> updateExtremePoints(sorted, placement, box, ps),
           placements |-> ps,
           packed |-> [st.packed EXCEPT ![i + 1] = TRUE],
           packedVol |-> item.volume]

\* packIntoBox, lines 165-184: one turn of the item loop for the item at
\* index i (0-based), with `sorted` the anchors as sortByPosition left them
packIntoBoxStep(st, i, item, box, sorted) ==
  LET best == findBestPlacement(sorted, item, box, st.placements)
      ep == sorted[best.bestPoint + 1]
      rot == rotations(item.W, item.H, item.D)[best.bestRot + 1]
      placement == [ItemID |-> item.ID,
                    X |-> ep.X, Y |-> ep.Y, Z |-> ep.Z,
                    W |-> rot[1], H |-> rot[2], D |-> rot[3]]
      ps == Append(st.placements, placement)
  IN IF best.bestPoint = -1
     THEN [st EXCEPT !.extremePoints = sorted]
     ELSE [extremePoints |-> updateExtremePoints(sorted, placement, box, ps),
           placements |-> ps,
           packed |-> [st.packed EXCEPT ![i + 1] = TRUE],
           packedVol |-> st.packedVol + item.volume]

\* packIntoBox as a function of its arguments: the item loop from index i on.
\* The anchors have pairwise distinct corners, so their sorted order is unique.
RECURSIVE packIntoBoxFrom(_, _, _, _)
packIntoBoxFrom(its, box, i, st) ==
  IF i >= Len(its) THEN st
  ELSE packIntoBoxFrom(its, box, i + 1,
         packIntoBoxStep(st, i, its[i + 1], box,
                         CHOOSE s \in sortByPosition(st.extremePoints) : TRUE))

packIntoBox(its, box) == packIntoBoxFrom(its, box, 0, packIntoBoxInit(its, box))

\* ------------------------------------------------------------------------
\* Container selection
\* ------------------------------------------------------------------------
\* findBestBox, lines 122-125
findBestBoxInit ==
  [bestIdx |-> -1, bestPlacements |-> <<>>, bestPacked |-> <<>>,
   bestPackedVol |-> -1]

\* Mutant of findBestBoxStep: a trial that ties on packed volume replaces the
\* best kept so far.
findBestBoxStepLastWins(best, i, bxs, trial) ==
  IF trial.packedVol <= 0 THEN best
  ELSE IF best.bestIdx = -1 \/ trial.packedVol >= best.bestPackedVol
  THEN [bestIdx |-> i, bestPlacements |-> trial.placements,
        bestPacked |-> trial.packed, bestPackedVol |-> trial.packedVol]
  ELSE best

\* Mutant of findBestBoxStep: the first box type that packs anything is kept
\* whatever the later ones pack.
findBestBoxStepFirstFit(best, i, bxs, trial) ==
  IF trial.packedVol <= 0 THEN best
  ELSE IF best.bestIdx = -1
  THEN [bestIdx |-> i, bestPlacements |-> trial.placements,
        bestPacked |-> trial.packed, bestPackedVol |-> trial.packedVol]
  ELSE best

\* findBestBox, lines 129-137: the result of the trial of box i (0-based)
\* against the best kept so far
findBestBoxStep(best, i, bxs, trial) ==
  IF trial.packedVol <= 0 THEN best
  ELSE IF best.bestIdx = -1 \/ trial.packedVol > best.bestPackedVol
  THEN [bestIdx |-> i, bestPlacements |-> trial.placements,
        bestPacked |-> trial.packed, bestPackedVol |-> trial.packedVol]
  ELSE IF /\ trial.packedVol = best.bestPackedVol
          /\ boxVolume(bxs[i + 1]) < boxVolume(bxs[best.bestIdx + 1])
  THEN [bestIdx |-> i, bestPlacements |-> trial.placements,
        bestPacked |-> trial.packed, bestPackedVol |-> best.bestPackedVol]
  ELSE best

RECURSIVE findBestBoxFrom(_, _, _, _)
findBestBoxFrom(its, bxs, i, best) ==
  IF i >= Len(bxs) THEN best
  ELSE findBestBoxFrom(its, bxs, i + 1,
         findBestBoxStep(best, i, bxs, packIntoBox(its, bxs[i + 1])))

findBestBox(its, bxs) == findBestBoxFrom(its, bxs, 0, findBestBoxInit)

\* Pack, lines 78-95: the loop from a list of remaining units on
RECURSIVE PackFrom(_, _, _)
PackFrom(rem, bxs, out) ==
  IF Len(rem) = 0 THEN [packedBoxes |-> out, unpackedItems |-> <<>>]
  ELSE LET best == findBestBox(rem, bxs)
       IN IF best.bestIdx = -1
          THEN [packedBoxes |-> out,
                unpackedItems |-> [k \in 1..Len(rem) |-> InputItemOf(rem[k])]]
          ELSE PackFrom(filterUnpacked(rem, best.bestPacked), bxs,
                        Append(out, [BoxID |-> bxs[best.bestIdx + 1].ID,
                                     Contents |-> best.bestPlacements]))

\* Pack as a relation: the results it can return for one input, one for each
\* order the two sorts can leave.
Pack(ins, avail) ==
  { PackFrom(s, b, <<>>) : s \in sortItemsByVolume(expandItems(ins)),
                           b \in sortBoxes(avail) }

\* ------------------------------------------------------------------------
\* Inputs
\* ------------------------------------------------------------------------
Dims == 1..MaxDim

InputItemSet == [ID : {ItemIDs[k] : k \in 1..MaxItems}, W : Dims, H : Dims,
                 D : Dims, Quantity : 0..MaxQty]

InputBoxSet == [ID : {BoxIDs[k] : k \in 1..MaxBoxes}, W : Dims, H : Dims,
                D : Dims]

\* Identifiers are names: a list is taken up to renaming, the k-th entry
\* naming one of the first k identifiers.
CanonicalIDs(s, ids) ==
  \A k \in 1..Len(s) : \E j \in 1..k : s[k].ID = ids[j]

ItemLists ==
  { s \in UNION { [1..n -> InputItemSet] : n \in 0..MaxItems } :
      CanonicalIDs(s, ItemIDs) }

BoxLists ==
  { s \in UNION { [1..n -> InputBoxSet] : n \in 0..MaxBoxes } :
      CanonicalIDs(s, BoxIDs) }

\* ------------------------------------------------------------------------
\* State machine
\* ------------------------------------------------------------------------
\* The body of a request that is not JSON of the shape of PackRequest; also
\* the value of body while no request is served
NoBody == [ok |-> FALSE, Items |-> <<>>, Boxes |-> <<>>]

\* float64 zero, the value of utilization before line 90
ZeroQuotient == [num |-> 0, den |-> 1]

\* No request is being served
NoRequest ==
  /\ body = NoBody
  /\ totalBoxVolume = 0
  /\ totalItemVolume = 0
  /\ utilization = ZeroQuotient
  /\ visualizations = {}
  /\ env = ""
  /\ header = <<>>
  /\ expectedSecret = ""
  /\ proxySecret = ""
  /\ status = 0
  /\ nextCalled = FALSE
  /\ served = 0

InitLocals ==
  /\ pc = "expand"
  /\ items = <<>>
  /\ boxes = <<>>
  /\ packedBoxes = <<>>
  /\ unpackedItems = <<>>
  /\ remaining = <<>>
  /\ bi = 0
  /\ bestIdx = -1
  /\ bestPlacements = <<>>
  /\ bestPacked = <<>>
  /\ bestPackedVol = -1
  /\ ii = 0
  /\ extremePoints = <<>>
  /\ placements = <<>>
  /\ packed = <<>>
  /\ packedVol = 0

Init ==
  /\ inputItems \in ItemLists
  /\ availableBoxes \in BoxLists
  /\ Len(inputItems) + Len(availableBoxes) <= MaxInput
  /\ InitLocals
  /\ parked = <<>>
  /\ NoRequest

\* Pack, line 66
ExpandItems ==
  /\ pc = "expand"
  /\ items' = expandItems(inputItems)
  /\ pc' = "sortItems"
  /\ UNCHANGED <<respVars, httpVars, parked, inputItems, availableBoxes, boxes, packedBoxes,
                 unpackedItems, remaining, bestVars, trialVars>>

\* Pack, line 67
SortItems ==
  /\ pc = "sortItems"
  /\ items' \in sortItemsByVolume(items)
  /\ pc' = "sortBoxes"
  /\ UNCHANGED <<respVars, httpVars, parked, inputItems, availableBoxes, boxes, packedBoxes,
                 unpackedItems, remaining, bestVars, trialVars>>

\* Mutant of SortBoxes: the caller's box list is sorted in place, without
\* the clone of line 69.
SortBoxesInPlace ==
  /\ pc = "sortBoxes"
  /\ boxes' \in sortBoxes(availableBoxes)
  /\ availableBoxes' = boxes'
  /\ remaining' = items
  /\ pc' = "loop"
  /\ UNCHANGED <<respVars, httpVars, parked, inputItems, items, packedBoxes,
                 unpackedItems, bestVars, trialVars>>

\* Pack, lines 69-77
SortBoxes ==
  /\ pc = "sortBoxes"
  /\ boxes' \in sortBoxes(availableBoxes)
  /\ remaining' = items
  /\ pc' = "loop"
  /\ UNCHANGED <<respVars, httpVars, parked, inputItems, availableBoxes, items, packedBoxes,
                 unpackedItems, bestVars, trialVars>>

\* Pack, line 78, with the entry of findBestBox (lines 122-125) when units
\* remain and the return of line 95 when none does
LoopHead ==
  /\ pc = "loop"
  /\ IF Len(remaining) > 0
     THEN /\ pc' = "boxLoop"
          /\ bi' = 0
          /\ bestIdx' = findBestBoxInit.bestIdx
          /\ bestPlacements' = findBestBoxInit.bestPlacements
          /\ bestPacked' = findBestBoxInit.bestPacked
          /\ bestPackedVol' = findBestBoxInit.bestPackedVol
     ELSE /\ pc' = "done"
          /\ UNCHANGED bestVars
  /\ UNCHANGED <<respVars, httpVars, parked, packVars, trialVars>>

\* Mutant of StartTrial: the frontier is made once for findBestBox and the
\* trials after the first go on from the anchors the trial before them left.
StartTrialKeepFrontier ==
  /\ pc = "boxLoop"
  /\ bi < Len(boxes)
  /\ LET st == packIntoBoxInit(remaining, boxes[bi + 1])
     IN /\ extremePoints' = IF bi = 0 THEN st.extremePoints ELSE extremePoints
        /\ placements' = st.placements
        /\ packed' = st.packed
        /\ packedVol' = st.packedVol
  /\ ii' = 0
  /\ pc' = "itemLoop"
  /\ UNCHANGED <<respVars, httpVars, parked, packVars, bestVars>>

\* findBestBox, line 127, with the entry of packIntoBox (lines 155-162)
StartTrial ==
  /\ pc = "boxLoop"
  /\ bi < Len(boxes)
  /\ LET st == packIntoBoxInit(remaining, boxes[bi + 1])
     IN /\ extremePoints' = st.extremePoints
        /\ placements' = st.placements
        /\ packed' = st.packed
        /\ packedVol' = st.packedVol
  /\ ii' = 0
  /\ pc' = "itemLoop"
  /\ UNCHANGED <<respVars, httpVars, parked, packVars, bestVars>>

\* The locals of the running packIntoBox call
TrialState ==
  [extremePoints |-> extremePoints, placements |-> placements,
   packed |-> packed, packedVol |-> packedVol]

\* packIntoBox, lines 164-185: a turn of the item loop that places the item
PlaceItem ==
  /\ pc = "itemLoop"
  /\ ii < Len(remaining)
  /\ \E sorted \in sortByPosition(extremePoints) :
       LET st == packIntoBoxStep(TrialState, ii, remaining[ii + 1],
                                 boxes[bi + 1], sorted)
       IN /\ st.packed[ii + 1]
          /\ extremePoints' = st.extremePoints
          /\ placements' = st.placements
          /\ packed' = st.packed
          /\ packedVol' = st.packedVol
  /\ ii' = ii + 1
  /\ pc' = "itemLoop"
  /\ UNCHANGED <<respVars, httpVars, parked, packVars, bestVars>>

\* Mutant of SkipItem: the item loop is left at the first item that has no
\* feasible placement.
SkipItemBreak ==
  /\ pc = "itemLoop"
  /\ ii < Len(remaining)
  /\ \E sorted \in sortByPosition(extremePoints) :
       LET st == packIntoBoxStep(TrialState, ii, remaining[ii + 1],
                                 boxes[bi + 1], sorted)
       IN /\ ~st.packed[ii + 1]
          /\ extremePoints' = st.extremePoints
          /\ placements' = st.placements
          /\ packed' = st.packed
          /\ packedVol' = st.packedVol
  /\ ii' = Len(remaining)
  /\ pc' = "itemLoop"
  /\ UNCHANGED <<respVars, httpVars, parked, packVars, bestVars>>

\* packIntoBox, lines 164-170: a turn of the item loop for an item with no
\* feasible placement
SkipItem ==
  /\ pc = "itemLoop"
  /\ ii < Len(remaining)
  /\ \E sorted \in sortByPosition(extremePoints) :
       LET st == packIntoBoxStep(TrialState, ii, remaining[ii + 1],
                                 boxes[bi + 1], sorted)
       IN /\ ~st.packed[ii + 1]
          /\ extremePoints' = st.extremePoints
          /\ placements' = st.placements
          /\ packed' = st.packed
          /\ packedVol' = st.packedVol
  /\ ii' = ii + 1
  /\ pc' = "itemLoop"
  /\ UNCHANGED <<respVars, httpVars, parked, packVars, bestVars>>

\* packIntoBox, line 187, and findBestBox, lines 128-137
EndTrial ==
  /\ pc = "itemLoop"
  /\ ii >= Len(remaining)
  /\ LET best == findBestBoxStep([bestIdx |-> bestIdx,
                                  bestPlacements |-> bestPlacements,
                                  bestPacked |-> bestPacked,
                                  bestPackedVol |-> bestPackedVol],
                                 bi, boxes, TrialState)
     IN /\ bestIdx' = best.bestIdx
        /\ bestPlacements' = best.bestPlacements
        /\ bestPacked' = best.bestPacked
        /\ bestPackedVol' = best.bestPackedVol
  /\ bi' = bi + 1
  /\ pc' = "boxLoop"
  /\ UNCHANGED <<respVars, httpVars, parked, packVars, trialVars>>

\* findBestBox, line 140, and Pack, lines 79-92: a box is committed
CommitBox ==
  /\ pc = "boxLoop"
  /\ bi >= Len(boxes)
  /\ bestIdx # -1
  /\ packedBoxes' = Append(packedBoxes,
                           [BoxID |-> boxes[bestIdx + 1].ID,
                            Contents |-> bestPlacements])
  /\ remaining' = filterUnpacked(remaining, bestPacked)
  /\ pc' = "loop"
  /\ UNCHANGED <<respVars, httpVars, parked, inputItems, availableBoxes, items, boxes, unpackedItems,
                 bestVars, trialVars>>

\* findBestBox, line 140, and Pack, lines 79-85 and 95: no box packs anything
GiveUp ==
  /\ pc = "boxLoop"
  /\ bi >= Len(boxes)
  /\ bestIdx = -1
  /\ unpackedItems' =
       unpackedItems \o [k \in 1..Len(remaining) |-> InputItemOf(remaining[k])]
  /\ pc' = "done"
  /\ UNCHANGED <<respVars, httpVars, parked, inputItems, availableBoxes, items, boxes, packedBoxes,
                 remaining, bestVars, trialVars>>

Next ==
  \/ ExpandItems
  \/ SortItems
  \/ SortBoxes
  \/ LoopHead
  \/ StartTrial
  \/ PlaceItem
  \/ SkipItem
  \/ EndTrial
  \/ CommitBox
  \/ GiveUp

Spec == Init /\ [][Next]_vars

\* Inputs that break the input contract: a dimension below one or a negative
\* quantity, in a single input item and a single box type
AnyDims == {-1, 0} \cup Dims

AnyItemLists ==
  UNION { [1..n -> [ID : {ItemIDs[1]}, W : AnyDims, H : AnyDims, D : AnyDims,
                    Quantity : {-1} \cup (0..MaxQty)]] : n \in 0..1 }

AnyBoxLists ==
  UNION { [1..n -> [ID : {BoxIDs[1]}, W : AnyDims, H : AnyDims, D : AnyDims]] :
          n \in 0..1 }

InitAny ==
  /\ inputItems \in AnyItemLists
  /\ availableBoxes \in AnyBoxLists
  /\ InitLocals
  /\ parked = <<>>
  /\ NoRequest

\* Pack called on any input, valid or not
SpecAny == InitAny /\ [][Next]_vars

\* ------------------------------------------------------------------------
\* Named inputs: the cases of packer_test.go
\* ------------------------------------------------------------------------
\* TestPack
ScenarioA ==
  [items |-> << [ID |-> "item-b", W |-> 20, H |-> 20, D |-> 20, Quantity |-> 1],
                [ID |-> "item-a", W |-> 10, H |-> 10, D |-> 10, Quantity |-> 2],
                [ID |-> "item-c", W |-> 5, H |-> 5, D |-> 5, Quantity |-> 5] >>,
   boxes |-> << [ID |-> "box-small", W |-> 15, H |-> 15, D |-> 15],
                [ID |-> "box-large", W |-> 30, H |-> 30, D |-> 30] >>]

\* TestPackSplit
ScenarioB ==
  [items |-> << [ID |-> "item-big-1", W |-> 20, H |-> 20, D |-> 20, Quantity |-> 1],
                [ID |-> "item-big-2", W |-> 20, H |-> 20, D |-> 20, Quantity |-> 1] >>,
   boxes |-> << [ID |-> "box-medium", W |-> 25, H |-> 25, D |-> 25] >>]

\* TestRotation
ScenarioC ==
  [items |-> << [ID |-> "long-item", W |-> 50, H |-> 5, D |-> 5, Quantity |-> 1] >>,
   boxes |-> << [ID |-> "tall-box", W |-> 10, H |-> 60, D |-> 10] >>]

\* TestNoOverlap
ScenarioD ==
  [items |-> << [ID |-> "cube", W |-> 10, H |-> 10, D |-> 10, Quantity |-> 8] >>,
   boxes |-> << [ID |-> "box", W |-> 20, H |-> 20, D |-> 20] >>]

\* An item that no orientation brings inside the only box type
ScenarioE ==
  [items |-> << [ID |-> "huge", W |-> 70, H |-> 70, D |-> 70, Quantity |-> 1] >>,
   boxes |-> << [ID |-> "box", W |-> 20, H |-> 20, D |-> 20] >>]

\* TestItemsWithinBounds
ScenarioBounds ==
  [items |-> << [ID |-> "item-1", W |-> 10, H |-> 10, D |-> 10, Quantity |-> 5],
                [ID |-> "item-2", W |-> 8, H |-> 8, D |-> 8, Quantity |-> 3] >>,
   boxes |-> << [ID |-> "box", W |-> 30, H |-> 30, D |-> 30] >>]

\* TestTightPacking
ScenarioTight ==
  [items |-> << [ID |-> "item", W |-> 10, H |-> 10, D |-> 10, Quantity |-> 3] >>,
   boxes |-> << [ID |-> "box", W |-> 20, H |-> 10, D |-> 20] >>]

\* TestBottomLeftBackPreference
ScenarioOrigin ==
  [items |-> << [ID |-> "item", W |-> 5, H |-> 5, D |-> 5, Quantity |-> 1] >>,
   boxes |-> << [ID |-> "box", W |-> 20, H |-> 20, D |-> 20] >>]

TestInputs ==
  { ScenarioA, ScenarioB, ScenarioC, ScenarioD, ScenarioE, ScenarioBounds,
    ScenarioTight, ScenarioOrigin }

\* Identical cubes of side s for a box type of whole cells of side s, as many
\* as n cubes for a box of at least n cells
MaxCells == 2
CubeSides == {1, 10}

CubeInput(s, cw, ch, cd, n) ==
  [items |-> << [ID |-> "cube", W |-> s, H |-> s, D |-> s, Quantity |-> n] >>,
   boxes |-> << [ID |-> "box", W |-> cw * s, H |-> ch * s, D |-> cd * s] >>]

CubeInputs ==
  { CubeInput(q[1], q[2], q[3], q[4], q[5]) :
      q \in { r \in CubeSides \X (1..MaxCells) \X (1..MaxCells) \X (1..MaxCells)
                     \X (1..(MaxCells * MaxCells * MaxCells)) :
                r[5] <= r[2] * r[3] * r[4] } }

\* Items with the side lengths of TestRotation for a box type with the
\* dimensions of TestRotation, in every arrangement
ItemSides == {5, 50}
BoxSides == {10, 60}

RotationInputs ==
  { [items |-> << [ID |-> "long-item", W |-> q[1], H |-> q[2], D |-> q[3],
                   Quantity |-> q[7]] >>,
     boxes |-> << [ID |-> "tall-box", W |-> q[4], H |-> q[5], D |-> q[6]] >>] :
      q \in ItemSides \X ItemSides \X ItemSides
             \X BoxSides \X BoxSides \X BoxSides \X (1..MaxQty) }

\* Up to MaxShapes items of four shapes, two of them of equal volume and
\* different longest side, in every order, for a box type that holds several
MaxShapes == 3
OrderShapes == { <<1, 1, 1>>, <<1, 2, 2>>, <<1, 1, 4>>, <<2, 2, 2>> }
OrderBoxes == { <<2, 2, 2>>, <<2, 2, 4>> }

OrderInputs ==
  { [items |-> [k \in 1..Len(q[1]) |->
                  [ID |-> ItemIDs[k], W |-> q[1][k][1], H |-> q[1][k][2],
                   D |-> q[1][k][3], Quantity |-> 1]],
     boxes |-> << [ID |-> BoxIDs[1], W |-> q[2][1], H |-> q[2][2],
                   D |-> q[2][3]] >>] :
      q \in (UNION { [1..n -> OrderShapes] : n \in 1..MaxShapes }) \X OrderBoxes }

InitScenarios ==
  /\ \E in \in TestInputs \cup CubeInputs \cup RotationInputs \cup OrderInputs :
       /\ inputItems = in.items
       /\ availableBoxes = in.boxes
  /\ InitLocals
  /\ parked = <<>>
  /\ NoRequest

\* Pack called on the named inputs
SpecScenarios == InitScenarios /\ [][Next]_vars

\* ------------------------------------------------------------------------
\* Named inputs: anchors far enough from the origin for the weights of the
\* score (1000, 100, 10) to meet
\* ------------------------------------------------------------------------
\* A slab of length l lying along the width, then cubes of side 1, for a box
\* type of width bw, height 1 and depth 2, with or without a second type
\* that holds one cube. After the slab the anchors are (l,0,0) and (0,0,1).
SlabLengths == {10, 11, 12, 13}
BoxWidths == {12, 13}

SlabInput(l, bw, n, small) ==
  [items |-> << [ID |-> "cube", W |-> 1, H |-> 1, D |-> 1, Quantity |-> n],
                [ID |-> "slab", W |-> l, H |-> 1, D |-> 1, Quantity |-> 1] >>,
   boxes |-> << [ID |-> "box", W |-> bw, H |-> 1, D |-> 2] >>
             \o (IF small THEN << [ID |-> "small", W |-> 1, H |-> 1, D |-> 1] >>
                 ELSE <<>>)]

ScoreInputs ==
  { SlabInput(q[1], q[2], q[3], q[4]) :
      q \in SlabLengths \X BoxWidths \X (1..MaxQty) \X BOOLEAN }

InitScore ==
  /\ \E in \in ScoreInputs \cup RotationInputs :
       /\ inputItems = in.items
       /\ availableBoxes = in.boxes
  /\ InitLocals
  /\ parked = <<>>
  /\ NoRequest

\* Pack called on the inputs whose anchors meet in score and on those of
\* TestRotation
SpecScore == InitScore /\ [][Next]_vars

\* ------------------------------------------------------------------------
\* Concurrent calls of Pack on the same input slices
\* ------------------------------------------------------------------------
\* The variables pc .. packedVol are the locals of the call that is running;
\* parked holds the locals of the other calls; inputItems and availableBoxes
\* are the slices all the calls were given.
MaxCalls == 2

\* The locals of the running call
Locals ==
  [pc |-> pc, items |-> items, boxes |-> boxes, packedBoxes |-> packedBoxes,
   unpackedItems |-> unpackedItems, remaining |-> remaining, bi |-> bi,
   bestIdx |-> bestIdx, bestPlacements |-> bestPlacements,
   bestPacked |-> bestPacked, bestPackedVol |-> bestPackedVol, ii |-> ii,
   extremePoints |-> extremePoints, placements |-> placements,
   packed |-> packed, packedVol |-> packedVol]

\* The locals of a call that has not taken a step
NewCall ==
  [pc |-> "expand", items |-> <<>>, boxes |-> <<>>, packedBoxes |-> <<>>,
   unpackedItems |-> <<>>, remaining |-> <<>>, bi |-> 0,
   bestIdx |-> -1, bestPlacements |-> <<>>,
   bestPacked |-> <<>>, bestPackedVol |-> -1, ii |-> 0,
   extremePoints |-> <<>>, placements |-> <<>>,
   packed |-> <<>>, packedVol |-> 0]

\* Two box types of equal volume that each hold the two units
ScenarioTie ==
  [items |-> << [ID |-> "a", W |-> 1, H |-> 1, D |-> 1, Quantity |-> 1],
                [ID |-> "b", W |-> 1, H |-> 1, D |-> 1, Quantity |-> 1] >>,
   boxes |-> << [ID |-> "A", W |-> 1, H |-> 1, D |-> 2],
                [ID |-> "B", W |-> 1, H |-> 2, D |-> 1] >>]

\* The inputs the concurrent calls are checked on
ConcurrentInputs ==
  { ScenarioB, ScenarioC, ScenarioE, ScenarioTight, ScenarioOrigin, ScenarioTie }

InitConcurrent ==
  /\ \E in \in ConcurrentInputs :
       /\ inputItems = in.items
       /\ availableBoxes = in.boxes
  /\ InitLocals
  /\ \E n \in 2..MaxCalls : parked = [c \in 1..(n - 1) |-> NewCall]
  /\ NoRequest

\* The scheduler takes the running call off the processor and resumes
\* another one where it stopped
Switch ==
  \E c \in 1..Len(parked) :
    /\ parked' = [parked EXCEPT ![c] = Locals]
    /\ pc' = parked[c].pc
    /\ items' = parked[c].items
    /\ boxes' = parked[c].boxes
    /\ packedBoxes' = parked[c].packedBoxes
    /\ unpackedItems' = parked[c].unpackedItems
    /\ remaining' = parked[c].remaining
    /\ bi' = parked[c].bi
    /\ bestIdx' = parked[c].bestIdx
    /\ bestPlacements' = parked[c].bestPlacements
    /\ bestPacked' = parked[c].bestPacked
    /\ bestPackedVol' = parked[c].bestPackedVol
    /\ ii' = parked[c].ii
    /\ extremePoints' = parked[c].extremePoints
    /\ placements' = parked[c].placements
    /\ packed' = parked[c].packed
    /\ packedVol' = parked[c].packedVol
    /\ UNCHANGED <<respVars, httpVars, inputItems, availableBoxes>>

NextConcurrent ==
  \/ ExpandItems
  \/ SortItems
  \/ SortBoxes
  \/ LoopHead
  \/ StartTrial
  \/ PlaceItem
  \/ SkipItem
  \/ EndTrial
  \/ CommitBox
  \/ GiveUp
  \/ Switch

\* Calls of Pack interleaved at every step
SpecConcurrent == InitConcurrent /\ [][NextConcurrent]_vars

\* ------------------------------------------------------------------------
\* RapidAPIMiddleware
\* ------------------------------------------------------------------------
MaxRequests == 2
MaxHeaderValues == 2

\* http.StatusUnauthorized
StatusUnauthorized == 401

\* The secrets that are configured or sent
Secrets == {"s1", "s2"}

\* The values a request can carry in its X-RapidAPI-Proxy-Secret header
HeaderValues ==
  UNION { [1..n -> Secrets \cup {""}] : n \in 0..MaxHeaderValues }

\* The statuses the wrapped handler answers with
HandlerStatuses == {200, 400}

\* http.Header.Get: the first value of the header, "" when there is none
HeaderGet(h) == IF Len(h) = 0 THEN "" ELSE h[1]

\* Mutant of secretMismatch: only a missing header is refused.
secretMismatchMissingOnly(proxy, expected) == proxy = ""

\* RapidAPIMiddleware, line 25: the test of the header against the secret
secretMismatch(proxy, expected) == proxy # expected

InitMiddleware ==
  /\ pc = "middleware"
  /\ inputItems = <<>>
  /\ availableBoxes = <<>>
  /\ items = <<>>
  /\ boxes = <<>>
  /\ packedBoxes = <<>>
  /\ unpackedItems = <<>>
  /\ remaining = <<>>
  /\ bi = 0
  /\ bestIdx = -1
  /\ bestPlacements = <<>>
  /\ bestPacked = <<>>
  /\ bestPackedVol = -1
  /\ ii = 0
  /\ extremePoints = <<>>
  /\ placements = <<>>
  /\ packed = <<>>
  /\ packedVol = 0
  /\ parked = <<>>
  /\ env \in Secrets \cup {""}
  /\ header \in HeaderValues
  /\ expectedSecret = ""
  /\ proxySecret = ""
  /\ status = 0
  /\ nextCalled = FALSE
  /\ served = 1
  /\ body = NoBody
  /\ totalBoxVolume = 0
  /\ totalItemVolume = 0
  /\ utilization = ZeroQuotient
  /\ visualizations = {}

\* RapidAPIMiddleware, line 13
Getenv ==
  /\ pc = "middleware"
  /\ expectedSecret' = env
  /\ pc' = "configured"
  /\ UNCHANGED <<respVars, packVars, bestVars, trialVars, parked, env, header,
                 proxySecret, status, nextCalled, served>>

\* RapidAPIMiddleware, lines 16-19: no secret is configured, the wrapped
\* handler is called and answers
SkipValidation ==
  /\ pc = "configured"
  /\ expectedSecret = ""
  /\ nextCalled' = TRUE
  /\ status' \in HandlerStatuses
  /\ pc' = "responded"
  /\ UNCHANGED <<respVars, packVars, bestVars, trialVars, parked, env, header,
                 expectedSecret, proxySecret, served>>

\* RapidAPIMiddleware, lines 16 and 22
GetHeader ==
  /\ pc = "configured"
  /\ expectedSecret # ""
  /\ proxySecret' = HeaderGet(header)
  /\ pc' = "compare"
  /\ UNCHANGED <<respVars, packVars, bestVars, trialVars, parked, env, header,
                 expectedSecret, status, nextCalled, served>>

\* RapidAPIMiddleware, lines 25-28
Unauthorized ==
  /\ pc = "compare"
  /\ secretMismatch(proxySecret, expectedSecret)
  /\ status' = StatusUnauthorized
  /\ pc' = "responded"
  /\ UNCHANGED <<respVars, packVars, bestVars, trialVars, parked, env, header,
                 expectedSecret, proxySecret, nextCalled, served>>

\* RapidAPIMiddleware, lines 25 and 31: the wrapped handler is called and
\* answers
Proceed ==
  /\ pc = "compare"
  /\ ~secretMismatch(proxySecret, expectedSecret)
  /\ nextCalled' = TRUE
  /\ status' \in HandlerStatuses
  /\ pc' = "responded"
  /\ UNCHANGED <<respVars, packVars, bestVars, trialVars, parked, env, header,
                 expectedSecret, proxySecret, served>>

\* The server calls the middleware for the next request
NextRequest ==
  /\ pc = "responded"
  /\ served < MaxRequests
  /\ header' \in HeaderValues
  /\ expectedSecret' = ""
  /\ proxySecret' = ""
  /\ status' = 0
  /\ nextCalled' = FALSE
  /\ served' = served + 1
  /\ pc' = "middleware"
  /\ UNCHANGED <<respVars, packVars, bestVars, trialVars, parked, env>>

NextMiddleware ==
  \/ Getenv
  \/ SkipValidation
  \/ GetHeader
  \/ Unauthorized
  \/ Proceed
  \/ NextRequest

\* Requests served one after the other by the wrapped handler
SpecMiddleware == InitMiddleware /\ [][NextMiddleware]_vars

\* ------------------------------------------------------------------------
\* handlePack
\* ------------------------------------------------------------------------
\* http.StatusBadRequest
StatusBadRequest == 400

\* http.StatusOK, the status of a response written without WriteHeader
StatusOK == 200

\* InputBox{}, the value a map of InputBox gives for a key it does not hold
ZeroBox == [ID |-> "", W |-> 0, H |-> 0, D |-> 0]

\* handlePack, lines 74-77: the map from id to box type; of several types
\* with one id the last of the list is the one kept
boxByID(bxs) ==
  [id \in { bxs[k].ID : k \in 1..Len(bxs) } |->
     bxs[CHOOSE k \in 1..Len(bxs) :
           /\ bxs[k].ID = id
           /\ \A j \in 1..Len(bxs) : bxs[j].ID = id => j <= k]]

\* A lookup in the map m
Lookup(m, id) == IF id \in DOMAIN m THEN m[id] ELSE ZeroBox

\* Mutant of boxVolumeSum: the depth of the box type is left out.
RECURSIVE boxVolumeSumNoDepth(_, _, _)
boxVolumeSumNoDepth(pbs, m, k) ==
  IF k > Len(pbs) THEN 0
  ELSE Lookup(m, pbs[k].BoxID).W * Lookup(m, pbs[k].BoxID).H
       + boxVolumeSumNoDepth(pbs, m, k + 1)

\* handlePack, lines 80-82: totalBoxVolume over the committed boxes from the
\* k-th on
RECURSIVE boxVolumeSum(_, _, _)
boxVolumeSum(pbs, m, k) ==
  IF k > Len(pbs) THEN 0
  ELSE Lookup(m, pbs[k].BoxID).W * Lookup(m, pbs[k].BoxID).H
         * Lookup(m, pbs[k].BoxID).D
       + boxVolumeSum(pbs, m, k + 1)

\* handlePack, lines 83-85: the volume of the placements of one box from the
\* j-th on
RECURSIVE contentsVolumeSum(_, _)
contentsVolumeSum(ps, j) ==
  IF j > Len(ps) THEN 0
  ELSE ps[j].W * ps[j].H * ps[j].D + contentsVolumeSum(ps, j + 1)

\* handlePack, lines 80-86: totalItemVolume over the committed boxes from the
\* k-th on
RECURSIVE itemVolumeSum(_, _)
itemVolumeSum(pbs, k) ==
  IF k > Len(pbs) THEN 0
  ELSE contentsVolumeSum(pbs[k].Contents, 1) + itemVolumeSum(pbs, k + 1)

\* The bodies of the requests: one that does not decode, and the requests
\* with the item and box lists of Init, empty lists among them
Bodies ==
  {NoBody} \cup
  { [ok |-> TRUE, Items |-> i, Boxes |-> b] :
      <<i, b>> \in { q \in ItemLists \X BoxLists :
                      Len(q[1]) + Len(q[2]) <= MaxInput } }

InitHandle ==
  /\ pc = "handlePack"
  /\ body \in Bodies
  /\ inputItems = <<>>
  /\ availableBoxes = <<>>
  /\ items = <<>>
  /\ boxes = <<>>
  /\ packedBoxes = <<>>
  /\ unpackedItems = <<>>
  /\ remaining = <<>>
  /\ bi = 0
  /\ bestIdx = -1
  /\ bestPlacements = <<>>
  /\ bestPacked = <<>>
  /\ bestPackedVol = -1
  /\ ii = 0
  /\ extremePoints = <<>>
  /\ placements = <<>>
  /\ packed = <<>>
  /\ packedVol = 0
  /\ parked = <<>>
  /\ env = ""
  /\ header = <<>>
  /\ expectedSecret = ""
  /\ proxySecret = ""
  /\ status = 0
  /\ nextCalled = FALSE
  /\ served = 1
  /\ totalBoxVolume = 0
  /\ totalItemVolume = 0
  /\ utilization = ZeroQuotient
  /\ visualizations = {}

\* handlePack, lines 61-65
Decode ==
  /\ pc = "handlePack"
  /\ IF body.ok
     THEN /\ inputItems' = body.Items
          /\ availableBoxes' = body.Boxes
          /\ pc' = "validate"
          /\ UNCHANGED status
     ELSE /\ status' = StatusBadRequest
          /\ pc' = "responded"
          /\ UNCHANGED <<inputItems, availableBoxes>>
  /\ UNCHANGED <<items, boxes, packedBoxes, unpackedItems, remaining,
                 bestVars, trialVars, parked, env, header, expectedSecret,
                 proxySecret, nextCalled, served, respVars>>

\* handlePack, lines 67-70
RejectEmpty ==
  /\ pc = "validate"
  /\ Len(inputItems) = 0 \/ Len(availableBoxes) = 0
  /\ status' = StatusBadRequest
  /\ pc' = "responded"
  /\ UNCHANGED <<packVars, bestVars, trialVars, parked, env, header,
                 expectedSecret, proxySecret, nextCalled, served, respVars>>

\* handlePack, lines 67 and 72: Pack is called
CallPack ==
  /\ pc = "validate"
  /\ ~(Len(inputItems) = 0 \/ Len(availableBoxes) = 0)
  /\ pc' = "expand"
  /\ UNCHANGED <<packVars, bestVars, trialVars, parked, httpVars, respVars>>

\* handlePack, lines 72-105, from the return of Pack on: the totals, the
\* utilization (the quotient of line 90 times 100, kept exact), the
\* visualization page, stored under the id of the request unless its
\* generation fails (lines 115-120), and the response
Respond ==
  /\ pc = "done"
  /\ totalBoxVolume' = boxVolumeSum(packedBoxes, boxByID(availableBoxes), 1)
  /\ totalItemVolume' = itemVolumeSum(packedBoxes, 1)
  /\ utilization' = IF totalBoxVolume' > 0
                    THEN [num |-> totalItemVolume' * 100, den |-> totalBoxVolume']
                    ELSE ZeroQuotient
  /\ \E generated \in BOOLEAN :
       visualizations' = IF generated THEN visualizations \cup {served}
                         ELSE visualizations
  /\ status' = StatusOK
  /\ pc' = "responded"
  /\ UNCHANGED <<packVars, bestVars, trialVars, parked, env, header,
                 expectedSecret, proxySecret, nextCalled, served, body>>

NextHandle ==
  \/ Decode
  \/ RejectEmpty
  \/ CallPack
  \/ ExpandItems
  \/ SortItems
  \/ SortBoxes
  \/ LoopHead
  \/ StartTrial
  \/ PlaceItem
  \/ SkipItem
  \/ EndTrial
  \/ CommitBox
  \/ GiveUp
  \/ Respond

\* A request to /pack handled from its body to its response
SpecHandle == InitHandle /\ [][NextHandle]_vars

\* ------------------------------------------------------------------------
\* Properties
\* ------------------------------------------------------------------------
\* The intersection test of two placements (verifyNoOverlaps of the tests)
intersects(a, b) ==
  /\ a.X < b.X + b.W /\ a.X + a.W > b.X
  /\ a.Y < b.Y + b.H /\ a.Y + a.H > b.Y
  /\ a.Z < b.Z + b.D /\ a.Z + a.D > b.Z

NoOverlapIn(ps) ==
  \A i \in 1..Len(ps) : \A j \in 1..Len(ps) :
    i < j => ~intersects(ps[i], ps[j])

Inside(p, b) ==
  /\ p.X >= 0 /\ p.Y >= 0 /\ p.Z >= 0
  /\ p.X + p.W <= b.W /\ p.Y + p.H <= b.H /\ p.Z + p.D <= b.D

AllPlacements ==
  UNION { { packedBoxes[k].Contents[j] : j \in 1..Len(packedBoxes[k].Contents) } :
          k \in 1..Len(packedBoxes) }

CountIn(s, id) == Cardinality({ k \in 1..Len(s) : s[k].ID = id })

CountPlaced(id) ==
  LET idx == { <<k, j>> \in (1..Len(packedBoxes)) \X (1..(MaxItems * MaxQty)) :
               /\ j <= Len(packedBoxes[k].Contents)
               /\ packedBoxes[k].Contents[j].ItemID = id }
  IN Cardinality(idx)

RECURSIVE QuantityOf(_, _, _)
QuantityOf(ins, id, k) ==
  IF k > Len(ins) THEN 0
  ELSE (IF ins[k].ID = id THEN ins[k].Quantity ELSE 0) + QuantityOf(ins, id, k + 1)

UsedItemIDs == { inputItems[k].ID : k \in 1..Len(inputItems) }

\* The orderings of three dimensions
Orderings(w, h, d) ==
  { <<w, h, d>>, <<w, d, h>>, <<h, w, d>>, <<h, d, w>>, <<d, w, h>>, <<d, h, w>> }

IsPermutationOf(p, it) == <<p.W, p.H, p.D>> \in Orderings(it.W, it.H, it.D)

\* C1: in the running trial, in the best trial kept by findBestBox and in
\* every committed box, no two distinct placements intersect on all three
\* axes at once.
C1_NoOverlap ==
  /\ NoOverlapIn(placements)
  /\ NoOverlapIn(bestPlacements)
  /\ \A k \in 1..Len(packedBoxes) : NoOverlapIn(packedBoxes[k].Contents)

\* C1 witness: Pack has returned a box holding four placements.
C1_Witness ==
  /\ pc = "done"
  /\ \E k \in 1..Len(packedBoxes) : Len(packedBoxes[k].Contents) >= 4

\* C2: every placement of a committed box has a non-negative position and
\* ends inside the dimensions of the box type named by the box's BoxID.
C2_WithinBounds ==
  \A k \in 1..Len(packedBoxes) :
    \E t \in 1..Len(availableBoxes) :
      /\ availableBoxes[t].ID = packedBoxes[k].BoxID
      /\ \A j \in 1..Len(packedBoxes[k].Contents) :
           Inside(packedBoxes[k].Contents[j], availableBoxes[t])

\* C2 witness: Pack has returned a placement away from the origin that
\* touches the far walls of its box on the three axes.
C2_Witness ==
  /\ pc = "done"
  /\ \E k \in 1..Len(packedBoxes) :
       \E t \in 1..Len(availableBoxes) :
         \E j \in 1..Len(packedBoxes[k].Contents) :
           LET p == packedBoxes[k].Contents[j]
               b == availableBoxes[t]
           IN /\ b.ID = packedBoxes[k].BoxID
              /\ p.X + p.Y + p.Z > 0
              /\ p.X + p.W = b.W /\ p.Y + p.H = b.H /\ p.Z + p.D = b.D

\* C3: when Pack returns, for every item id the placements carrying it plus
\* the unpacked entries carrying it are as many as the quantities of the
\* input items with that id; before that, the units still remaining count
\* in place of the unpacked ones.
C3_Conservation ==
  \A id \in UsedItemIDs :
    /\ pc = "done" =>
         CountPlaced(id) + CountIn(unpackedItems, id)
           = QuantityOf(inputItems, id, 1)
    /\ pc \in {"loop", "boxLoop", "itemLoop"} =>
         CountPlaced(id) + CountIn(remaining, id)
           = QuantityOf(inputItems, id, 1)

\* C3 witness: Pack has returned with units of one id both placed and
\* unpacked.
C3_Witness ==
  /\ pc = "done"
  /\ \E id \in UsedItemIDs :
       CountPlaced(id) > 0 /\ CountIn(unpackedItems, id) > 0

\* C4: the dimensions of every placement are a permutation of the
\* dimensions of an input item with the placement's id, and so the volumes
\* agree.
C4_RotationValid ==
  \A p \in AllPlacements :
    \E k \in 1..Len(inputItems) :
      /\ inputItems[k].ID = p.ItemID
      /\ IsPermutationOf(p, inputItems[k])
      /\ p.W * p.H * p.D = inputItems[k].W * inputItems[k].H * inputItems[k].D

\* C4 witness: Pack has returned a placement whose dimensions are in another
\* order than those of every input item with its id.
C4_Witness ==
  /\ pc = "done"
  /\ \E p \in AllPlacements :
       \A k \in 1..Len(inputItems) :
         inputItems[k].ID = p.ItemID =>
           <<p.W, p.H, p.D>> # <<inputItems[k].W, inputItems[k].H, inputItems[k].D>>

\* The result Pack has returned
Returned == [packedBoxes |-> packedBoxes, unpackedItems |-> unpackedItems]

\* The steps of Pack agree with Pack as a relation on its input
StepsAgreeWithPack == pc = "done" => Returned \in Pack(inputItems, availableBoxes)

Rank ==
  LET U == Len(expandItems(inputItems))
      B == Len(availableBoxes)
      C == 2 + B * (U + 2)
      r == Len(remaining)
  IN CASE pc = "expand" -> U * C + 4
       [] pc = "sortItems" -> U * C + 3
       [] pc = "sortBoxes" -> U * C + 2
       [] pc = "loop" -> r * C + 1
       [] pc = "boxLoop" -> r * C - bi * (U + 2)
       [] pc = "itemLoop" -> r * C - bi * (U + 2) - 1 - ii
       [] pc = "done" -> 0

\* C6: Pack terminates: every step lowers a non-negative bound on the steps
\* left; a step that commits a box removes at least one unit from the
\* remaining list, and no committed box is empty.
C6_Terminates ==
  /\ [][Rank' < Rank]_vars
  /\ [](Rank >= 0)
  /\ [][Len(packedBoxes') > Len(packedBoxes) =>
          Len(remaining') < Len(remaining)]_vars
  /\ [](\A k \in 1..Len(packedBoxes) : Len(packedBoxes[k].Contents) > 0)

\* C6 witness: Pack has returned after committing two boxes.
C6_Witness == pc = "done" /\ Len(packedBoxes) >= 2

\* C7: the box type about to be committed has, among all box types, the
\* greatest packed volume in a single-box trial on the remaining units, and
\* the smallest box volume among the types that reach that packed volume.
C7_BestBox ==
  (pc = "boxLoop" /\ bi >= Len(boxes) /\ bestIdx # -1) =>
    LET won == boxes[bestIdx + 1]
        vol(b) == packIntoBox(remaining, b).packedVol
    IN /\ bestPackedVol = vol(won)
       /\ \A t \in 1..Len(availableBoxes) :
            /\ vol(availableBoxes[t]) <= vol(won)
            /\ vol(availableBoxes[t]) = vol(won) =>
                 boxVolume(won) <= boxVolume(availableBoxes[t])

\* C7 witness: a box type is about to be committed while another type of
\* greater volume reaches the same packed volume.
C7_Witness ==
  /\ pc = "boxLoop" /\ bi >= Len(boxes) /\ bestIdx # -1
  /\ \E t \in 1..Len(boxes) :
       /\ packIntoBox(remaining, boxes[t]).packedVol = bestPackedVol
       /\ boxVolume(boxes[t]) > boxVolume(boxes[bestIdx + 1])

\* A unit fits a box type when one ordering of its dimensions is within the
\* dimensions of the type.
FitsType(u, b) ==
  \E o \in Orderings(u.W, u.H, u.D) : o[1] <= b.W /\ o[2] <= b.H /\ o[3] <= b.D

FitsSomeType(u) == \E t \in 1..Len(availableBoxes) : FitsType(u, availableBoxes[t])

\* C8: the loop stops without committing exactly when no remaining unit fits
\* a box type, the unpacked list is then the remaining list, and once Pack
\* has returned the unpacked list holds exactly the units that fit no type.
C8_UnpackedIffNoFit ==
  /\ [][(pc = "boxLoop" /\ pc' = "done") =>
          /\ \A k \in 1..Len(remaining) : ~FitsSomeType(remaining[k])
          /\ unpackedItems' = [k \in 1..Len(remaining) |-> InputItemOf(remaining[k])]
          /\ packedBoxes' = packedBoxes]_vars
  /\ [][(pc = "boxLoop" /\ pc' = "loop") =>
          /\ \E k \in 1..Len(remaining) : FitsSomeType(remaining[k])
          /\ Len(packedBoxes') = Len(packedBoxes) + 1]_vars
  /\ [](pc = "done" =>
          unpackedItems =
            SelectSeq([k \in 1..Len(items) |-> InputItemOf(items[k])],
                      LAMBDA u : ~FitsSomeType(u)))

\* C8 witness: Pack has returned after committing a box and leaving a unit
\* unpacked.
C8_Witness == pc = "done" /\ Len(packedBoxes) > 0 /\ Len(unpackedItems) > 0

\* The units the input asks for that are copies of the input item rec
RECURSIVE UnitsOf(_, _, _)
UnitsOf(ins, rec, k) ==
  IF k > Len(ins) THEN 0
  ELSE (IF ins[k] = rec THEN ins[k].Quantity ELSE 0) + UnitsOf(ins, rec, k + 1)

\* C10: with no input item Pack returns no box and no unpacked unit; with at
\* least one unit and no box type it returns no box and an unpacked list that
\* holds every unit of every input item, and nothing else.
C10_EmptyInput ==
  pc = "done" =>
    /\ Len(inputItems) = 0 => packedBoxes = <<>> /\ unpackedItems = <<>>
    /\ (Len(availableBoxes) = 0
        /\ \E k \in 1..Len(inputItems) : inputItems[k].Quantity > 0) =>
         /\ packedBoxes = <<>>
         /\ \A j \in 1..Len(unpackedItems) :
              \E k \in 1..Len(inputItems) : unpackedItems[j] = inputItems[k]
         /\ \A k \in 1..Len(inputItems) :
              Cardinality({ j \in 1..Len(unpackedItems) :
                            unpackedItems[j] = inputItems[k] })
                = UnitsOf(inputItems, inputItems[k], 1)

\* C10 witness: Pack has returned for an input of two different items, three
\* units in all, and no box type.
C10_Witness ==
  /\ pc = "done"
  /\ Len(availableBoxes) = 0
  /\ Len(unpackedItems) >= 3
  /\ \E j \in 1..Len(unpackedItems) : unpackedItems[j] # unpackedItems[1]

ValidInput ==
  /\ \A k \in 1..Len(inputItems) :
       /\ inputItems[k].W > 0 /\ inputItems[k].H > 0 /\ inputItems[k].D > 0
       /\ inputItems[k].Quantity >= 0
  /\ \A t \in 1..Len(availableBoxes) :
       availableBoxes[t].W > 0 /\ availableBoxes[t].H > 0 /\ availableBoxes[t].D > 0

\* C9: Pack returns a packing result only for valid input: an item or a box
\* type with a dimension below one, or an item with a negative quantity, is
\* rejected.
C9_InvalidRejected == pc = "done" => ValidInput

\* Pack was called on the named input in
InputIs(in) == inputItems = in.items /\ availableBoxes = in.boxes

\* The placements of the sequence ps that carry the item id
CountItem(ps, id) == Cardinality({ j \in 1..Len(ps) : ps[j].ItemID = id })

\* C11: for the input of TestPack (one 20x20x20, two 10x10x10, five 5x5x5;
\* types small 15x15x15 and large 30x30x30) Pack returns exactly one box, of
\* type large, that holds all 8 units, and no unpacked item.
C11_ScenarioA ==
  (pc = "done" /\ InputIs(ScenarioA)) =>
    /\ Len(packedBoxes) = 1
    /\ packedBoxes[1].BoxID = "box-large"
    /\ Len(packedBoxes[1].Contents) = 8
    /\ CountItem(packedBoxes[1].Contents, "item-b") = 1
    /\ CountItem(packedBoxes[1].Contents, "item-a") = 2
    /\ CountItem(packedBoxes[1].Contents, "item-c") = 5
    /\ unpackedItems = <<>>

\* C11 witness: Pack has returned a box for the input of TestPack.
C11_Witness == pc = "done" /\ InputIs(ScenarioA) /\ Len(packedBoxes) > 0

AtOrigin(p) == p.X = 0 /\ p.Y = 0 /\ p.Z = 0

\* C12: a box type is committed as often as needed: for the input of
\* TestPackSplit (two 20x20x20 items, one type 25x25x25 that holds one of them
\* at a time) Pack returns two boxes of that type and no unpacked item; each
\* box holds one of the two items, placed unrotated at the origin of its own
\* box.
C12_ScenarioB ==
  (pc = "done" /\ InputIs(ScenarioB)) =>
    /\ Len(packedBoxes) = 2
    /\ unpackedItems = <<>>
    /\ \A k \in 1..2 :
         /\ packedBoxes[k].BoxID = "box-medium"
         /\ Len(packedBoxes[k].Contents) = 1
         /\ AtOrigin(packedBoxes[k].Contents[1])
         /\ packedBoxes[k].Contents[1].W = 20
         /\ packedBoxes[k].Contents[1].H = 20
         /\ packedBoxes[k].Contents[1].D = 20
    /\ { packedBoxes[k].Contents[1].ItemID : k \in 1..2 }
         = {"item-big-1", "item-big-2"}

\* C12 witness: Pack has returned two boxes of the same type for the input
\* of TestPackSplit.
C12_Witness ==
  /\ pc = "done" /\ InputIs(ScenarioB)
  /\ Len(packedBoxes) = 2
  /\ packedBoxes[1].BoxID = packedBoxes[2].BoxID

\* The unit fits the box type as it is given, without turning it
FitsUnrotated(u, b) == u.W <= b.W /\ u.H <= b.H /\ u.D <= b.D

\* The input item at k fits a box type, but none without turning it
NeedsRotation(k) ==
  /\ inputItems[k].Quantity > 0
  /\ FitsSomeType(inputItems[k])
  /\ \A t \in 1..Len(availableBoxes) :
       ~FitsUnrotated(inputItems[k], availableBoxes[t])
  /\ \A j \in 1..Len(inputItems) : j # k => inputItems[j].ID # inputItems[k].ID

\* C13: an item that fits a box type only when turned is placed, every unit
\* of it, and each of its placements carries an ordering of its dimensions,
\* other than the given one, that is within the dimensions of the type of its
\* box; for the input of TestRotation (50x5x5 for 10x60x10) Pack returns one
\* box with one placement, its side of 50 along the height of 60.
C13_RotationUsed ==
  pc = "done" =>
    /\ \A k \in 1..Len(inputItems) :
         NeedsRotation(k) =>
           /\ CountIn(unpackedItems, inputItems[k].ID) = 0
           /\ CountPlaced(inputItems[k].ID) = inputItems[k].Quantity
           /\ \A b \in 1..Len(packedBoxes) :
                \A j \in 1..Len(packedBoxes[b].Contents) :
                  LET p == packedBoxes[b].Contents[j]
                  IN p.ItemID = inputItems[k].ID =>
                       /\ IsPermutationOf(p, inputItems[k])
                       /\ <<p.W, p.H, p.D>> # <<inputItems[k].W, inputItems[k].H,
                                                inputItems[k].D>>
                       /\ \E t \in 1..Len(availableBoxes) :
                            /\ availableBoxes[t].ID = packedBoxes[b].BoxID
                            /\ p.W <= availableBoxes[t].W
                            /\ p.H <= availableBoxes[t].H
                            /\ p.D <= availableBoxes[t].D
    /\ InputIs(ScenarioC) =>
         /\ Len(packedBoxes) = 1
         /\ Len(packedBoxes[1].Contents) = 1
         /\ packedBoxes[1].Contents[1].H = 50
         /\ packedBoxes[1].Contents[1].W <= 10
         /\ packedBoxes[1].Contents[1].H <= 60
         /\ packedBoxes[1].Contents[1].D <= 10
         /\ unpackedItems = <<>>

\* C13 witness: Pack has returned for an input with two units of an item
\* that fits the box type only when turned, the two units placed in one box.
C13_Witness ==
  /\ pc = "done"
  /\ \E k \in 1..Len(inputItems) :
       /\ NeedsRotation(k)
       /\ inputItems[k].Quantity = 2
       /\ Len(packedBoxes) = 1

\* The input is one box type and at least one unit, all units cubes of one
\* side, the dimensions of the type positive multiples of that side and the
\* cells of the type at least as many as the units.
CubeGrid ==
  /\ Len(availableBoxes) = 1
  /\ Len(inputItems) >= 1
  /\ LET s == inputItems[1].W
         b == availableBoxes[1]
     IN /\ s > 0
        /\ \A k \in 1..Len(inputItems) :
             inputItems[k].W = s /\ inputItems[k].H = s /\ inputItems[k].D = s
        /\ b.W >= s /\ b.H >= s /\ b.D >= s
        /\ b.W % s = 0 /\ b.H % s = 0 /\ b.D % s = 0
        /\ Len(expandItems(inputItems)) >= 1
        /\ (b.W \div s) * (b.H \div s) * (b.D \div s)
             >= Len(expandItems(inputItems))

\* C14: n identical cubes for one box type of whole cells, at least n of
\* them: Pack returns exactly one box, holding n placements of which no two
\* intersect, and no unpacked item.
C14_CubesFill ==
  (pc = "done" /\ CubeGrid) =>
    /\ Len(packedBoxes) = 1
    /\ Len(packedBoxes[1].Contents) = Len(expandItems(inputItems))
    /\ NoOverlapIn(packedBoxes[1].Contents)
    /\ \A j \in 1..Len(packedBoxes[1].Contents) :
         Inside(packedBoxes[1].Contents[j], availableBoxes[1])
    /\ unpackedItems = <<>>

\* C14 witness: Pack has returned a box of eight cells filled with eight
\* cubes.
C14_Witness ==
  /\ pc = "done" /\ CubeGrid
  /\ Len(packedBoxes) = 1
  /\ Len(packedBoxes[1].Contents) = 8
  /\ boxVolume(availableBoxes[1])
       = 8 * inputItems[1].W * inputItems[1].H * inputItems[1].D

\* The first placement of a sequence of placements, if any, is at the origin
StartsAtOrigin(ps) == Len(ps) > 0 => AtOrigin(ps[1])

\* C15: the first placement of every committed box is at (0,0,0), as is the
\* first placement of the running trial and of the best trial kept; a trial
\* that has placed nothing holds the origin anchor alone, spanning the box.
C15_StartAtOrigin ==
  /\ \A k \in 1..Len(packedBoxes) :
       /\ Len(packedBoxes[k].Contents) > 0
       /\ AtOrigin(packedBoxes[k].Contents[1])
  /\ StartsAtOrigin(placements)
  /\ StartsAtOrigin(bestPlacements)
  /\ (pc = "itemLoop" /\ Len(placements) = 0) =>
       extremePoints = << [X |-> 0, Y |-> 0, Z |-> 0,
                           W |-> boxes[bi + 1].W, H |-> boxes[bi + 1].H,
                           D |-> boxes[bi + 1].D] >>

\* C15 witness: Pack has returned two boxes, the first of them holding a
\* second placement away from the origin.
C15_Witness ==
  /\ pc = "done"
  /\ Len(packedBoxes) >= 2
  /\ Len(packedBoxes[1].Contents) >= 2
  /\ ~AtOrigin(packedBoxes[1].Contents[2])

Volume(p) == p.W * p.H * p.D

\* The units of s are in the order of the item sort: greater volume first,
\* and of two units of equal volume the one of greater longest side first
LargestFirst(s) ==
  \A i \in 1..Len(s) : \A j \in 1..Len(s) :
    i < j => \/ s[i].W * s[i].H * s[i].D > s[j].W * s[j].H * s[j].D
             \/ /\ s[i].W * s[i].H * s[i].D = s[j].W * s[j].H * s[j].D
                /\ max(s[i].W, s[i].H, s[i].D) >= max(s[j].W, s[j].H, s[j].D)

\* The placements of ps are in non-increasing order of volume
VolumeDescending(ps) ==
  \A i \in 1..Len(ps) : \A j \in 1..Len(ps) :
    i < j => Volume(ps[i]) >= Volume(ps[j])

\* C16: once sorted, the unit list is ordered by volume descending and, for
\* equal volumes, by longest side descending; the remaining list keeps that
\* order through every iteration; the placements of a trial and of every
\* committed box are in non-increasing order of volume.
C16_LargestFirst ==
  /\ pc \notin {"expand", "sortItems"} =>
       /\ LargestFirst(items)
       /\ Len(items) = Len(expandItems(inputItems))
  /\ LargestFirst(remaining)
  /\ VolumeDescending(placements)
  /\ VolumeDescending(bestPlacements)
  /\ \A k \in 1..Len(packedBoxes) : VolumeDescending(packedBoxes[k].Contents)

\* C16 witness: Pack has returned a box in which a unit comes before another
\* of the same volume and a shorter longest side, given in the other order.
C16_Witness ==
  /\ pc = "done"
  /\ Len(inputItems) >= 2
  /\ Volume(inputItems[1]) = Volume(inputItems[2])
  /\ max(inputItems[1].W, inputItems[1].H, inputItems[1].D)
       < max(inputItems[2].W, inputItems[2].H, inputItems[2].D)
  /\ \E k \in 1..Len(packedBoxes) :
       /\ Len(packedBoxes[k].Contents) >= 2
       /\ packedBoxes[k].Contents[1].ItemID = inputItems[2].ID
       /\ packedBoxes[k].Contents[2].ItemID = inputItems[1].ID

RECURSIVE TotalQuantity(_, _)
TotalQuantity(ins, k) ==
  IF k > Len(ins) THEN 0 ELSE ins[k].Quantity + TotalQuantity(ins, k + 1)

\* C17: the expanded list holds, for every input item, as many units as its
\* quantity and no other unit, each unit with the volume w*h*d and the
\* longest side of its item; an item id whose quantity is 0 is in no
\* placement and not in the unpacked list.
C17_Expansion ==
  /\ pc # "expand" =>
       /\ Len(items) = TotalQuantity(inputItems, 1)
       /\ \A j \in 1..Len(items) :
            /\ \E k \in 1..Len(inputItems) : InputItemOf(items[j]) = inputItems[k]
            /\ items[j].volume = items[j].W * items[j].H * items[j].D
            /\ items[j].maxDim \in {items[j].W, items[j].H, items[j].D}
            /\ items[j].maxDim >= items[j].W
            /\ items[j].maxDim >= items[j].H
            /\ items[j].maxDim >= items[j].D
       /\ \A k \in 1..Len(inputItems) :
            Cardinality({ j \in 1..Len(items) : InputItemOf(items[j]) = inputItems[k] })
              = UnitsOf(inputItems, inputItems[k], 1)
  /\ pc = "done" =>
       \A id \in UsedItemIDs :
         QuantityOf(inputItems, id, 1) = 0 =>
           CountPlaced(id) = 0 /\ CountIn(unpackedItems, id) = 0

\* C17 witness: Pack has returned a box for an input that has an item of
\* quantity 0 and an item of quantity 2 under different ids.
C17_Witness ==
  /\ pc = "done"
  /\ Len(packedBoxes) > 0
  /\ \E k \in 1..Len(inputItems) : \E j \in 1..Len(inputItems) :
       /\ inputItems[k].Quantity = 0
       /\ inputItems[j].Quantity = 2
       /\ inputItems[k].ID # inputItems[j].ID

\* The space of the box type b left empty by a single-box trial on the
\* remaining units
Wasted(b) == boxVolume(b) - packIntoBox(remaining, b).packedVol

\* C18: the box type about to be committed wastes the least space (its
\* volume less the volume it packs) among the box types that pack at least
\* one remaining unit.
C18_MinWaste ==
  (pc = "boxLoop" /\ bi >= Len(boxes) /\ bestIdx # -1) =>
    \A t \in 1..Len(boxes) :
      packIntoBox(remaining, boxes[t]).packedVol > 0 =>
        Wasted(boxes[bestIdx + 1]) <= Wasted(boxes[t])

\* The result of a call with the locals c
ResultOf(c) == [packedBoxes |-> c.packedBoxes, unpackedItems |-> c.unpackedItems]

\* C19: calls of Pack that run interleaved on the same slices do not
\* interfere: no step changes the slices the calls were given; the locals of
\* a call that is not running change at no step (a switch of the running call
\* carries them over as they are); and every call returns a result that Pack
\* returns for the input when it runs alone.
C19_NoInterference ==
  /\ [][inputItems' = inputItems /\ availableBoxes' = availableBoxes]_vars
  /\ [][\/ parked' = parked
        \/ \E c \in 1..Len(parked) :
             /\ parked' = [parked EXCEPT ![c] = Locals]
             /\ Locals' = parked[c]]_vars
  /\ [](pc = "done" => ResultOf(Locals) \in Pack(inputItems, availableBoxes))
  /\ [](\A c \in 1..Len(parked) :
          parked[c].pc = "done" =>
            ResultOf(parked[c]) \in Pack(inputItems, availableBoxes))

\* C19 witness: two calls on the same slices have both returned, with
\* different results.
C19_Witness ==
  /\ Len(parked) >= 1
  /\ pc = "done"
  /\ parked[1].pc = "done"
  /\ ResultOf(parked[1]) # ResultOf(Locals)
  /\ Len(packedBoxes) > 0

\* C20: with a non-empty secret configured, the wrapped handler is called
\* only for a request whose header (its first value) equals the secret, and
\* every other request is answered 401 without the handler being called;
\* with no secret configured every request is answered by the wrapped
\* handler.
C20_Middleware ==
  /\ [][(nextCalled' /\ ~nextCalled) =>
          (env = "" \/ HeaderGet(header) = env)]_vars
  /\ [](nextCalled => (env = "" \/ HeaderGet(header) = env))
  /\ [](pc = "responded" =>
          IF env # "" /\ HeaderGet(header) # env
          THEN status = StatusUnauthorized /\ ~nextCalled
          ELSE nextCalled /\ status \in HandlerStatuses)
  /\ [](pc # "responded" => status = 0 /\ ~nextCalled)

\* C20 witness: with a secret configured, a request carrying another secret
\* has been answered 401 after an earlier request was let through.
C20_Witness ==
  /\ pc = "responded"
  /\ served = 2
  /\ env # ""
  /\ HeaderGet(header) \in Secrets
  /\ HeaderGet(header) # env
  /\ status = StatusUnauthorized

\* The pairs (anchor index, rotation index), both 0-based, of the anchors
\* points that findBestPlacement can take for the item: the rotated item is
\* within the box and intersects no placement of ps
FeasiblePairs(points, item, box, ps) ==
  { q \in (0..(Len(points) - 1)) \X (0..5) :
      LET ep == points[q[1] + 1]
          rot == rotations(item.W, item.H, item.D)[q[2] + 1]
      IN /\ fitsInBox(box, ep.X, ep.Y, ep.Z, rot[1], rot[2], rot[3])
         /\ ~hasOverlap(ps, ep.X, ep.Y, ep.Z, rot[1], rot[2], rot[3]) }

\* The score of the pair q
PairScore(points, item, q) ==
  LET ep == points[q[1] + 1]
      rot == rotations(item.W, item.H, item.D)[q[2] + 1]
  IN 1000 * ep.Y + 100 * ep.Z + 10 * ep.X
     + (ep.W - rot[1]) + (ep.H - rot[2]) + (ep.D - rot[3])

\* The pairs of least score among the feasible ones
MinPairs(points, item, box, ps) ==
  LET F == FeasiblePairs(points, item, box, ps)
  IN { q \in F : \A r \in F : PairScore(points, item, q) <= PairScore(points, item, r) }

\* The anchors of s in the order o of their indices
Reordered(s, o) == [k \in 1..Len(s) |-> s[o[k]]]

\* The corner and the rotated dimensions the pair q stands for
PairPlacement(points, item, q) ==
  LET ep == points[q[1] + 1]
  IN <<ep.X, ep.Y, ep.Z, rotations(item.W, item.H, item.D)[q[2] + 1]>>

\* A trial is about to attempt the unit remaining[ii + 1]
Attempting == pc = "itemLoop" /\ ii < Len(remaining)

\* C21: for the unit a trial is about to attempt, findBestPlacement returns
\* (-1, -1) when no (anchor, rotation) pair is feasible, and otherwise a
\* feasible pair of least score, the first such pair in the order of the
\* sorted anchors and then of the rotations; given the anchors in any other
\* order it still returns a pair of least score, and the same corner and
\* rotated dimensions when the pairs of least score all stand for one
\* placement.
C21_MinScore ==
  Attempting =>
    LET item == remaining[ii + 1]
        box == boxes[bi + 1]
    IN \A sorted \in sortByPosition(extremePoints) :
         LET best == findBestPlacement(sorted, item, box, placements)
             got == <<best.bestPoint, best.bestRot>>
             M == MinPairs(sorted, item, box, placements)
         IN IF FeasiblePairs(sorted, item, box, placements) = {}
            THEN got = <<-1, -1>>
            ELSE /\ got \in M
                 /\ best.bestScore = PairScore(sorted, item, got)
                 /\ \A q \in M : \/ got[1] < q[1]
                                 \/ got[1] = q[1] /\ got[2] <= q[2]
                 /\ \A o \in Permutations(1..Len(sorted)) :
                      LET other == Reordered(sorted, o)
                          alt == findBestPlacement(other, item, box, placements)
                          q == <<alt.bestPoint, alt.bestRot>>
                      IN /\ q \in MinPairs(other, item, box, placements)
                         /\ alt.bestScore = best.bestScore
                         /\ Cardinality({ PairPlacement(sorted, item, m) :
                                          m \in M }) = 1 =>
                              PairPlacement(other, item, q)
                                = PairPlacement(sorted, item, got)

\* C21 witness: a trial is about to attempt a unit for which two anchors
\* hold feasible pairs of the same least score.
C21_Witness ==
  /\ Attempting
  /\ \E sorted \in sortByPosition(extremePoints) :
       \E q \in MinPairs(sorted, remaining[ii + 1], boxes[bi + 1], placements) :
         \E r \in MinPairs(sorted, remaining[ii + 1], boxes[bi + 1], placements) :
           q[1] # r[1]

\* The corner of a is at or before the corner of b in the lexicographic order
\* of (y, z, x)
LexLeq(a, b) ==
  \/ a.Y < b.Y
  \/ a.Y = b.Y /\ a.Z < b.Z
  \/ a.Y = b.Y /\ a.Z = b.Z /\ a.X <= b.X

\* C22: for the unit a trial is about to attempt, the anchor findBestPlacement
\* chooses is the least in (y, z, x) order of the anchors that admit a
\* feasible rotation, whatever the size of the box.
C22_LexPreference ==
  Attempting =>
    LET item == remaining[ii + 1]
        box == boxes[bi + 1]
    IN \A sorted \in sortByPosition(extremePoints) :
         LET best == findBestPlacement(sorted, item, box, placements)
         IN \A q \in FeasiblePairs(sorted, item, box, placements) :
              LexLeq(sorted[best.bestPoint + 1], sorted[q[1] + 1])

\* The corner of the anchor ep is a point of the box
CornerInBox(ep, box) ==
  /\ 0 <= ep.X /\ ep.X < box.W
  /\ 0 <= ep.Y /\ ep.Y < box.H
  /\ 0 <= ep.Z /\ ep.Z < box.D

\* The corner of the anchor ep is a point of the half-open volume of p
CornerInside(ep, p) ==
  /\ p.X <= ep.X /\ ep.X < p.X + p.W
  /\ p.Y <= ep.Y /\ ep.Y < p.Y + p.H
  /\ p.Z <= ep.Z /\ ep.Z < p.Z + p.D

\* C23: throughout a single-container trial, and so after every commit of a
\* placement, the corner of every anchor of the frontier is a point of the
\* box and of the half-open volume of no placement made so far.
C23_FrontierSound ==
  pc = "itemLoop" =>
    \A e \in 1..Len(extremePoints) :
      /\ CornerInBox(extremePoints[e], boxes[bi + 1])
      /\ \A k \in 1..Len(placements) :
           ~CornerInside(extremePoints[e], placements[k])

\* C23 witness: after the third commit of a trial the frontier holds an
\* anchor made by the first commit and retained since.
C23_Witness ==
  /\ pc = "itemLoop"
  /\ Len(placements) >= 3
  /\ \E e \in 1..Len(extremePoints) :
       LET ep == extremePoints[e]
           p == placements[1]
       IN /\ <<ep.X, ep.Y, ep.Z>> \in { <<p.X + p.W, p.Y, p.Z>>,
                                         <<p.X, p.Y + p.H, p.Z>>,
                                         <<p.X, p.Y, p.Z + p.D>> }
          /\ \A k \in 2..Len(placements) :
               <<ep.X, ep.Y, ep.Z>> \notin
                 { <<placements[k].X + placements[k].W, placements[k].Y,
                     placements[k].Z>>,
                   <<placements[k].X, placements[k].Y + placements[k].H,
                     placements[k].Z>>,
                   <<placements[k].X, placements[k].Y,
                     placements[k].Z + placements[k].D>> }

\* The corners the placement p makes anchors at
NewCorners(p) ==
  { <<p.X + p.W, p.Y, p.Z>>, <<p.X, p.Y + p.H, p.Z>>, <<p.X, p.Y, p.Z + p.D>> }

Corner(ep) == <<ep.X, ep.Y, ep.Z>>

\* C24: throughout a trial, and so after every regeneration of the frontier,
\* no two anchors of the frontier have the same corner (x, y, z).
C24_DistinctCorners ==
  pc = "itemLoop" =>
    \A e \in 1..Len(extremePoints) : \A f \in 1..Len(extremePoints) :
      e # f => Corner(extremePoints[e]) # Corner(extremePoints[f])

\* C24 witness: the frontier holds an anchor at a corner that the placement
\* just committed makes and that an earlier placement of the trial made too.
C24_Witness ==
  /\ pc = "itemLoop"
  /\ Len(placements) >= 2
  /\ \E e \in 1..Len(extremePoints) :
       /\ Corner(extremePoints[e]) \in NewCorners(placements[Len(placements)])
       /\ \E k \in 1..(Len(placements) - 1) :
            Corner(extremePoints[e]) \in NewCorners(placements[k])

\* The anchors of the sequence s, as a set
AnchorSet(s) == { s[e] : e \in 1..Len(s) }

\* The unit a trial is about to attempt has no feasible (anchor, rotation)
\* pair
NoFeasiblePair ==
  /\ Attempting
  /\ \A e \in 1..Len(extremePoints) :
       \A o \in Orderings(remaining[ii + 1].W, remaining[ii + 1].H,
                          remaining[ii + 1].D) :
         LET ep == extremePoints[e]
         IN \/ ~Inside([X |-> ep.X, Y |-> ep.Y, Z |-> ep.Z,
                        W |-> o[1], H |-> o[2], D |-> o[3]], boxes[bi + 1])
            \/ \E k \in 1..Len(placements) :
                 intersects(placements[k],
                            [X |-> ep.X, Y |-> ep.Y, Z |-> ep.Z,
                             W |-> o[1], H |-> o[2], D |-> o[3]])

\* C25: the turn of the item loop for a unit with no feasible pair leaves
\* the unit's flag false, the other flags, the set of anchors, the placement
\* list and the packed volume as they are, and goes on to the next unit of
\* the list within the same trial; a unit with a feasible pair is flagged.
C25_SkipLeavesTrial ==
  /\ [][NoFeasiblePair =>
          /\ packed' = packed
          /\ ~packed'[ii + 1]
          /\ AnchorSet(extremePoints') = AnchorSet(extremePoints)
          /\ Len(extremePoints') = Len(extremePoints)
          /\ placements' = placements
          /\ packedVol' = packedVol
          /\ ii' = ii + 1
          /\ pc' = "itemLoop"
          /\ remaining' = remaining /\ bi' = bi]_vars
  /\ [][(Attempting /\ ~NoFeasiblePair) =>
          /\ packed'[ii + 1]
          /\ Len(placements') = Len(placements) + 1
          /\ ii' = ii + 1]_vars

\* C25 witness: in a trial a unit was left unplaced and a later unit of the
\* list was placed after it.
C25_Witness ==
  /\ pc = "itemLoop"
  /\ \E i \in 1..Len(packed) : \E j \in 1..Len(packed) :
       /\ i < j /\ j <= ii
       /\ ~packed[i]
       /\ packed[j]

\* The indices of the true flags, in ascending order
Flagged(flags) == SelectSeq([k \in 1..Len(flags) |-> k], LAMBDA k : flags[k])

RECURSIVE SumOver(_, _)
SumOver(s, k) == IF k > Len(s) THEN 0 ELSE s[k] + SumOver(s, k + 1)

\* The result (ps, flags, vol) of a trial on the units its is consistent
ConsistentTrial(its, ps, flags, vol) ==
  LET F == Flagged(flags)
  IN /\ Len(flags) = Len(its)
     /\ Len(ps) = Len(F)
     /\ Cardinality({ k \in 1..Len(flags) : flags[k] }) = Len(ps)
     /\ \A k \in 1..Len(F) :
          /\ k <= Len(ps)
          /\ ps[k].ItemID = its[F[k]].ID
          /\ IsPermutationOf(ps[k], its[F[k]])
     /\ vol = SumOver([k \in 1..Len(F) |-> its[F[k]].W * its[F[k]].H * its[F[k]].D], 1)
     /\ vol = SumOver([k \in 1..Len(ps) |-> ps[k].W * ps[k].H * ps[k].D], 1)

\* C26: the result of packIntoBox is consistent, at its return and after
\* every turn of its item loop: there are as many flags as units; the
\* placements are as many as the true flags, the k-th placement carrying the
\* id and a permutation of the dimensions of the k-th flagged unit; no unit
\* not yet attempted is flagged; and packedVol is the sum of the volumes of
\* the flagged units, which is the sum of w*h*d of the placements. The result
\* findBestBox keeps as best is consistent too.
C26_ConsistentResult ==
  /\ pc = "itemLoop" =>
       /\ ConsistentTrial(remaining, placements, packed, packedVol)
       /\ \A k \in 1..Len(packed) : k > ii => ~packed[k]
  /\ (pc \in {"itemLoop", "boxLoop"} /\ bestIdx # -1) =>
       ConsistentTrial(remaining, bestPlacements, bestPacked, bestPackedVol)

\* C26 witness: packIntoBox is about to return two placements for three
\* units of different ids, the second unit being the one left unflagged.
C26_Witness ==
  /\ pc = "itemLoop"
  /\ ii >= Len(remaining)
  /\ Len(remaining) = 3
  /\ packed = <<TRUE, FALSE, TRUE>>
  /\ Len(placements) = 2
  /\ placements[2].ItemID = remaining[3].ID
  /\ remaining[3].ID # remaining[2].ID

\* The result of a trial, without the anchors it leaves
TrialResult(st) ==
  [placements |-> st.placements, packed |-> st.packed,
   packedVol |-> st.packedVol]

\* The anchor at the origin that spans the box
OriginAnchor(box) ==
  [X |-> 0, Y |-> 0, Z |-> 0, W |-> box.W, H |-> box.H, D |-> box.D]

\* C27: no step of a trial changes the list of remaining units; a trial
\* starts with the origin anchor alone, no placement, no flag set and no
\* volume; the result a trial returns for a box type is the result of
\* packIntoBox on the remaining units and that type alone, whatever was tried
\* before it in the iteration; and the commit appends exactly the placements
\* of that result for the winning type and keeps the units it left unflagged.
C27_SimulateThenCommit ==
  /\ [][(pc = "itemLoop" \/ pc' = "itemLoop") => remaining' = remaining]_vars
  /\ [][(pc = "boxLoop" /\ pc' = "itemLoop") =>
          /\ extremePoints' = <<OriginAnchor(boxes[bi + 1])>>
          /\ placements' = <<>>
          /\ packed' = [k \in 1..Len(remaining) |-> FALSE]
          /\ packedVol' = 0
          /\ ii' = 0]_vars
  /\ []((pc = "itemLoop" /\ ii >= Len(remaining)) =>
          TrialResult(TrialState)
            = TrialResult(packIntoBox(remaining, boxes[bi + 1])))
  /\ [][Len(packedBoxes') > Len(packedBoxes) =>
          LET won == packIntoBox(remaining, boxes[bestIdx + 1])
          IN /\ packedBoxes' = Append(packedBoxes,
                                      [BoxID |-> boxes[bestIdx + 1].ID,
                                       Contents |-> won.placements])
             /\ remaining' = filterUnpacked(remaining, won.packed)]_vars

\* C27 witness: in one iteration the trial of a second box type is about to
\* return placements, other than those kept as best from the first type.
C27_Witness ==
  /\ pc = "itemLoop"
  /\ ii >= Len(remaining)
  /\ bi >= 1
  /\ bestIdx = 0
  /\ Len(placements) > 0
  /\ placements # bestPlacements

\* The sequences s and t hold the same elements, each as often
SameElements(s, t) ==
  /\ Len(s) = Len(t)
  /\ \A k \in 1..Len(s) :
       Cardinality({ j \in 1..Len(s) : s[j] = s[k] })
         = Cardinality({ j \in 1..Len(t) : t[j] = s[k] })

\* C28: no step of Pack changes the caller's list of box types or the
\* caller's list of items, so both are at the return what they were at the
\* call, element for element; the list Pack works on holds the same box
\* types in ascending order of volume.
C28_InputsReadOnly ==
  /\ [][availableBoxes' = availableBoxes]_vars
  /\ [][inputItems' = inputItems]_vars
  /\ [](pc \notin {"expand", "sortItems", "sortBoxes"} =>
          /\ SameElements(boxes, availableBoxes)
          /\ \A i \in 1..Len(boxes) : \A j \in 1..Len(boxes) :
               i < j => boxVolume(boxes[i]) <= boxVolume(boxes[j]))

\* C28 witness: Pack has returned a box for a caller whose list names the
\* box type of greater volume first.
C28_Witness ==
  /\ pc = "done"
  /\ Len(availableBoxes) = 2
  /\ boxVolume(availableBoxes[1]) > boxVolume(availableBoxes[2])
  /\ boxes = <<availableBoxes[2], availableBoxes[1]>>
  /\ Len(packedBoxes) > 0

\* Every anchor of the frontier spans the box from its corner to the far
\* walls
SpanToWalls ==
  pc = "itemLoop" =>
    \A e \in 1..Len(extremePoints) :
      /\ extremePoints[e].W = boxes[bi + 1].W - extremePoints[e].X
      /\ extremePoints[e].H = boxes[bi + 1].H - extremePoints[e].Y
      /\ extremePoints[e].D = boxes[bi + 1].D - extremePoints[e].Z

\* The feasible pairs of one anchor all have the same score
RotationsTie ==
  Attempting =>
    \A sorted \in sortByPosition(extremePoints) :
      LET F == FeasiblePairs(sorted, remaining[ii + 1], boxes[bi + 1], placements)
      IN \A q \in F : \A r \in F :
           q[1] = r[1] => PairScore(sorted, remaining[ii + 1], q)
                            = PairScore(sorted, remaining[ii + 1], r)

\* The rotation chosen is the first feasible one of the chosen anchor
FirstFeasibleRotation ==
  Attempting =>
    \A sorted \in sortByPosition(extremePoints) :
      LET F == FeasiblePairs(sorted, remaining[ii + 1], boxes[bi + 1], placements)
          best == findBestPlacement(sorted, remaining[ii + 1], boxes[bi + 1],
                                    placements)
      IN \A q \in F : q[1] = best.bestPoint => best.bestRot <= q[2]

\* The score of the pair q without its tight-fit term
PositionScore(points, q) ==
  1000 * points[q[1] + 1].Y + 100 * points[q[1] + 1].Z + 10 * points[q[1] + 1].X

\* The pair chosen is the one the loops of findBestPlacement choose by the
\* position of the anchor alone: the first pair of least position score
TightFitNeutral ==
  Attempting =>
    \A sorted \in sortByPosition(extremePoints) :
      LET F == FeasiblePairs(sorted, remaining[ii + 1], boxes[bi + 1], placements)
          best == findBestPlacement(sorted, remaining[ii + 1], boxes[bi + 1],
                                    placements)
      IN \A q \in F :
           \/ PositionScore(sorted, <<best.bestPoint, best.bestRot>>)
                < PositionScore(sorted, q)
           \/ /\ PositionScore(sorted, <<best.bestPoint, best.bestRot>>)
                   = PositionScore(sorted, q)
              /\ \/ best.bestPoint < q[1]
                 \/ best.bestPoint = q[1] /\ best.bestRot <= q[2]

\* C29: every anchor of the frontier has the span (W-x, H-y, D-z); the
\* feasible rotations of a unit at one anchor all have the same score; the
\* tight-fit term never changes which pair wins; and the rotation committed
\* is the first feasible one, in the order of enumeration, at the chosen
\* anchor.
C29_TightFitNeverDecides ==
  /\ SpanToWalls
  /\ RotationsTie
  /\ TightFitNeutral
  /\ FirstFeasibleRotation

\* The box types of the request have pairwise distinct ids
DistinctBoxIDs ==
  \A i \in 1..Len(availableBoxes) : \A j \in 1..Len(availableBoxes) :
    i # j => availableBoxes[i].ID # availableBoxes[j].ID

\* The volume of the placements of all committed boxes
PlacedVolume ==
  SumOver([k \in 1..Len(packedBoxes) |->
             SumOver([j \in 1..Len(packedBoxes[k].Contents) |->
                        Volume(packedBoxes[k].Contents[j])], 1)], 1)

\* The volume of the box types of the committed boxes, each type found by
\* its id among the types of the request
CommittedVolume ==
  SumOver([k \in 1..Len(packedBoxes) |->
             boxVolume(availableBoxes[CHOOSE t \in 1..Len(availableBoxes) :
                                        availableBoxes[t].ID
                                          = packedBoxes[k].BoxID])], 1)

\* C30: in the response of handlePack to a request with positive dimensions
\* and pairwise distinct box ids, the reported total_volume is the sum of
\* the volumes of the committed boxes, the volume of the placed items does
\* not exceed it, the utilization is at most 100 percent, and total_volume is
\* 0 exactly when no box was committed.
C30_Utilization ==
  (pc = "responded" /\ status = StatusOK /\ ValidInput /\ DistinctBoxIDs) =>
    /\ totalItemVolume = PlacedVolume
    /\ totalBoxVolume = CommittedVolume
    /\ totalItemVolume <= totalBoxVolume
    /\ utilization.den > 0
    /\ utilization.num <= 100 * utilization.den
    /\ totalBoxVolume > 0 =>
         utilization.num * totalBoxVolume = 100 * totalItemVolume * utilization.den
    /\ totalBoxVolume = 0 <=> Len(packedBoxes) = 0

\* C30 witness: a response reports a committed box that is not full, of the
\* type the request names second, holding more than one cell of volume.
C30_Witness ==
  /\ pc = "responded" /\ status = StatusOK /\ ValidInput /\ DistinctBoxIDs
  /\ Len(availableBoxes) = 2
  /\ Len(packedBoxes) >= 1
  /\ packedBoxes[1].BoxID = availableBoxes[2].ID
  /\ 0 < utilization.num
  /\ utilization.num < 100 * utilization.den
  /\ totalItemVolume > 1

====
